---- MODULE Spec2Model ----
(***************************************************************************)
(* A model of the curation / mapping core of KAZU:                         *)
(*   - CurationProcessor (kazu/modelling/ontology_preprocessing/base.py):   *)
(*     the two term indices, the working curation set and its id index,     *)
(*     global id drops, conflict analysis and curation processing;          *)
(*   - MappingStrategy (kazu/steps/linking/post_processing/                 *)
(*     mapping_strategies/strategies.py): disambiguation and mapping        *)
(*     creation.                                                            *)
(* Python sets are iterated in an order the program does not control; every *)
(* loop over a set is modelled as the set of outcomes over all orders.      *)
(***************************************************************************)
EXTENDS Integers, Sequences, FiniteSets, TLC

\* ---------------------------------------------------------------- bounds
NumIds == 2
NumNorms == 2
MaxOps == 3
MaxCurations == 2
MaxActions == 2
MaxTotalActions == 2
MaxStrategies == 2

Ids == 1..NumIds
Norms == 1..NumNorms
\* curated synonym strings: one more than there are term_norms, so that two
\* different strings normalise to the same term_norm
Syns == 1..(NumNorms + 1)
\* Python's None for a term_norm, a synonym string or a curation
NoneVal == 0
\* Python's None for SynonymTermAction.associated_id_sets: no AssociatedIdSets
\* holds an empty EquivalentIdSet, so this value is distinct from all of them
NoneIdSets == {{}}

\* ------------------------------------------------------------ data model
\* EquivalentIdSet: a non-empty set of ids (one source per parser)
EquivalentIdSets == (SUBSET Ids) \ {{}}

\* AssociatedIdSets as produced by ingestion: non-empty, pairwise disjoint
PairwiseDisjoint(a) == \A e1 \in a : \A e2 \in a : e1 # e2 => e1 \cap e2 = {}
AssociatedIdSets == {a \in SUBSET EquivalentIdSets : a # {} /\ PairwiseDisjoint(a)}

\* StringNormalizer.normalize: total, deterministic, many-to-one, onto
\* num_norms normal forms
normalize_to(syn, num_norms) == ((syn - 1) % num_norms) + 1

normalize(syn) == normalize_to(syn, NumNorms)

\* the aggregation strategy ingestion records for an AssociatedIdSets
IngestedStrategy(a) ==
    IF Cardinality(UNION a) = 1 THEN "UNAMBIGUOUS"
    ELSE IF Cardinality(a) = 1 THEN "MERGED_AS_NON_SYMBOLIC"
    ELSE "RESOLVED_BY_SIMILARITY"

\* a SynonymTerm produced by the parser (terms = NoneVal stands for the raw
\* synonym set of the ontology, mapping types included)
SynonymTerm(term_norm, terms, associated_id_sets, aggregated_by) ==
    [term_norm |-> term_norm, terms |-> terms,
     associated_id_sets |-> associated_id_sets, aggregated_by |-> aggregated_by]

IngestedTerm(n, a) == SynonymTerm(n, NoneVal, a, IngestedStrategy(a))

\* all ids of a term (EquivalentIdSet.ids over the term's associated_id_sets)
TermIds(term) == UNION term.associated_id_sets

\* every order in which a Python set can be iterated
RECURSIVE Perms(_)
Perms(S) ==
    IF S = {} THEN {<<>>}
    ELSE UNION {{<<x>> \o p : p \in Perms(S \ {x})} : x \in S}

\* the elements of a sequence
Range(seq) == {seq[k] : k \in DOMAIN seq}

\* the ids of a set in ascending order
RECURSIVE SortedSeq(_)
SortedSeq(S) ==
    IF S = {} THEN <<>>
    ELSE LET m == CHOOSE x \in S : \A y \in S : x <= y
         IN <<m>> \o SortedSeq(S \ {m})

\* dict helpers: a dict is a function whose DOMAIN is its key set
DictPut(d, k, v) == [x \in (DOMAIN d) \cup {k} |-> IF x = k THEN v ELSE d[x]]
DictDel(d, k) == [x \in (DOMAIN d) \ {k} |-> d[x]]
EmptyDict == [x \in {} |-> {}]

\* the two indices of a CurationProcessor
MkDb(by_norm, by_id) == [terms_by_term_norm |-> by_norm, terms_by_id |-> by_id]

\* -------------------------------------------------- CurationProcessor: terms
\* _update_term_lookups
update_term_lookups(db, term, override) ==
    LET safe_to_add == (term.term_norm \notin DOMAIN db.terms_by_term_norm) \/ override
    IN IF safe_to_add
       THEN [db |-> MkDb(
                 DictPut(db.terms_by_term_norm, term.term_norm, term),
                 [i \in (DOMAIN db.terms_by_id) \cup TermIds(term) |->
                     IF i \in TermIds(term)
                     THEN (IF i \in DOMAIN db.terms_by_id THEN db.terms_by_id[i] ELSE {})
                          \cup {term}
                     ELSE db.terms_by_id[i]]),
             result |-> "SYNONYM_TERM_ADDED"]
       ELSE [db |-> db, result |-> "NO_ACTION"]

\* the removal loop of _drop_synonym_term: terms_by_id.remove raises KeyError
\* (caught by the caller's except clause) at the first id whose set exists but
\* does not hold the term; the ids before it have been processed
RECURSIVE remove_term_from_ids(_, _, _)
remove_term_from_ids(by_id, term, idseq) ==
    IF idseq = <<>> THEN [terms_by_id |-> by_id, missed |-> FALSE]
    ELSE LET idx == Head(idseq)
         IN IF idx \notin DOMAIN by_id
            THEN remove_term_from_ids(by_id, term, Tail(idseq))
            ELSE IF term \notin by_id[idx]
            THEN [terms_by_id |-> by_id, missed |-> TRUE]
            ELSE remove_term_from_ids(
                     [by_id EXCEPT ![idx] = @ \ {term}], term, Tail(idseq))

\* _drop_synonym_term
drop_synonym_term(db, synonym) ==
    IF synonym \notin DOMAIN db.terms_by_term_norm
    THEN [db |-> db, found |-> FALSE, missed |-> FALSE]
    ELSE LET term_to_remove == db.terms_by_term_norm[synonym]
             r == remove_term_from_ids(db.terms_by_id, term_to_remove,
                                       SortedSeq(TermIds(term_to_remove)))
         IN [db |-> MkDb(DictDel(db.terms_by_term_norm, synonym), r.terms_by_id),
             found |-> TRUE, missed |-> r.missed]

\* the drop that keeps an EquivalentIdSet emptied by the drop
drop_id_keeping_empty_sets(id_to_drop, associated_id_sets) ==
    {e \ {id_to_drop} : e \in associated_id_sets}

\* _drop_id_from_associated_id_sets
drop_id_from_associated_id_sets(id_to_drop, associated_id_sets) ==
    {e \ {id_to_drop} : e \in associated_id_sets} \ {{}}

\* _modify_or_drop_synonym_term_after_id_set_change
modify_or_drop_synonym_term_after_id_set_change(db, new_associated_id_sets, synonym_term) ==
    IF new_associated_id_sets # {}
    THEN IF new_associated_id_sets = synonym_term.associated_id_sets
         THEN [db |-> db, result |-> "ValueError", missed |-> FALSE]
         ELSE LET new_term == [synonym_term EXCEPT
                                  !.associated_id_sets = new_associated_id_sets,
                                  !.aggregated_by = "MODIFIED_BY_CURATION"]
              IN [db |-> update_term_lookups(db, new_term, TRUE).db,
                  result |-> "ID_SET_MODIFIED", missed |-> FALSE]
    ELSE LET r == drop_synonym_term(db, synonym_term.term_norm)
         IN [db |-> r.db, result |-> "SYNONYM_TERM_DROPPED", missed |-> r.missed]

\* _drop_id_from_synonym_term
drop_id_from_synonym_term(db, id_to_drop, term_to_modify) ==
    LET new_assoc_id_frozenset ==
            drop_id_from_associated_id_sets(id_to_drop, term_to_modify.associated_id_sets)
    IN IF new_assoc_id_frozenset = term_to_modify.associated_id_sets
       THEN [db |-> db, result |-> "NO_ACTION", missed |-> FALSE]
       ELSE modify_or_drop_synonym_term_after_id_set_change(
                db, new_assoc_id_frozenset, term_to_modify)

\* the loop of _drop_id_from_all_synonym_terms over the popped terms, visited
\* in the order termseq
RECURSIVE drop_id_loop(_, _, _, _)
drop_id_loop(acc, id_to_drop, termseq, k) ==
    IF k > Len(termseq) THEN acc
    ELSE LET r == drop_id_from_synonym_term(acc.db, id_to_drop, termseq[k])
         IN drop_id_loop(
                [db |-> r.db,
                 result |-> "OK",
                 terms_modified |-> acc.terms_modified
                                    + (IF r.result = "ID_SET_MODIFIED" THEN 1 ELSE 0),
                 terms_dropped |-> acc.terms_dropped
                                    + (IF r.result = "SYNONYM_TERM_DROPPED" THEN 1 ELSE 0),
                 missed |-> acc.missed \/ r.missed],
                id_to_drop, termseq, k + 1)

\* _drop_id_from_all_synonym_terms: every outcome the iteration order of the
\* popped set allows; popping an id that is no key raises KeyError
drop_id_from_all_synonym_terms(db, id_to_drop) ==
    IF id_to_drop \notin DOMAIN db.terms_by_id
    THEN {[db |-> db, result |-> "KeyError", terms_modified |-> 0,
           terms_dropped |-> 0, missed |-> FALSE]}
    ELSE LET maybe_terms_to_modify == db.terms_by_id[id_to_drop]
             popped == MkDb(db.terms_by_term_norm, DictDel(db.terms_by_id, id_to_drop))
         IN {drop_id_loop([db |-> popped, result |-> "OK", terms_modified |-> 0,
                           terms_dropped |-> 0, missed |-> FALSE],
                          id_to_drop, termseq, 1)
             : termseq \in Perms(maybe_terms_to_modify)}

\* _drop_equivalent_id_set_from_synonym_term
drop_equivalent_id_set_from_synonym_term(db, synonym, id_set_to_drop) ==
    IF synonym \notin DOMAIN db.terms_by_term_norm
    THEN [db |-> db, result |-> "KeyError", missed |-> FALSE]
    ELSE LET synonym_term == db.terms_by_term_norm[synonym]
             modifiable_id_sets == synonym_term.associated_id_sets \ {id_set_to_drop}
         IN modify_or_drop_synonym_term_after_id_set_change(
                db, modifiable_id_sets, synonym_term)

IsException(result) == result \in {"KeyError", "ValueError", "CurationException", "TypeError"}

\* the loop of _drop_id_set_from_synonym_term over the EquivalentIdSets to
\* drop, visited in the order setseq; an exception ends the loop
RECURSIVE drop_id_set_loop(_, _, _, _, _)
drop_id_set_loop(acc, target_term_to_modify, term_norm, setseq, k) ==
    IF k > Len(setseq) \/ IsException(acc.result) THEN acc
    ELSE IF setseq[k] \in target_term_to_modify.associated_id_sets
    THEN LET r == drop_equivalent_id_set_from_synonym_term(acc.db, term_norm, setseq[k])
         IN drop_id_set_loop(
                [db |-> r.db, result |-> r.result, missed |-> acc.missed \/ r.missed],
                target_term_to_modify, term_norm, setseq, k + 1)
    ELSE drop_id_set_loop(acc, target_term_to_modify, term_norm, setseq, k + 1)

\* _drop_id_set_from_synonym_term: result is the last modification result,
\* NO_ACTION when no named set was on the term, or the exception raised
drop_id_set_from_synonym_term(db, equivalent_id_sets_to_drop, term_norm) ==
    IF term_norm \notin DOMAIN db.terms_by_term_norm
    THEN {[db |-> db, result |-> "KeyError", missed |-> FALSE]}
    ELSE {drop_id_set_loop([db |-> db, result |-> "NO_ACTION", missed |-> FALSE],
                           db.terms_by_term_norm[term_norm], term_norm, setseq, 1)
          : setseq \in Perms(equivalent_id_sets_to_drop)}

\* the AssociatedIdSets of the terms listed under idx (stale ones included)
assoc_id_sets_for_this_id(db, idx) ==
    IF idx \in DOMAIN db.terms_by_id
    THEN {term.associated_id_sets : term \in db.terms_by_id[idx]}
    ELSE {}

\* the values maybe_reusable_id_set can end with in
\* _attempt_to_add_database_entry_for_curation: min(..., key=len) keeps the
\* first smallest set it meets and a later id replaces it only by a strictly
\* smaller one, so any smallest AssociatedIdSets listed under any target id
\* can be the result, depending on the iteration order
reusable_id_sets(db, curation_associated_id_set) ==
    LET all == UNION {assoc_id_sets_for_this_id(db, idx)
                      : idx \in UNION curation_associated_id_set}
    IN {a \in all : \A b \in all : Cardinality(a) <= Cardinality(b)}

CuratedTerm(term_norm, curated_synonym, associated_id_sets) ==
    SynonymTerm(term_norm, curated_synonym, associated_id_sets, "MODIFIED_BY_CURATION")

\* _attempt_to_add_database_entry_for_curation when no term is stored for
\* curation_term_norm: every target id must be known to the parser; the term
\* is created with the reusable AssociatedIdSets, or with the target itself
\* when the reuse loop found none
add_entry_for_new_term_norm(db, curation_term_norm, curation_associated_id_set, curated_synonym) ==
    IF \E idx \in UNION curation_associated_id_set :
          assoc_id_sets_for_this_id(db, idx) = {}
    THEN {[db |-> db, result |-> "CurationException"]}
    ELSE IF UNION curation_associated_id_set # {}
    THEN {update_term_lookups(
              db, CuratedTerm(curation_term_norm, curated_synonym, maybe_reusable_id_set),
              FALSE)
          : maybe_reusable_id_set \in reusable_id_sets(db, curation_associated_id_set)}
    ELSE {update_term_lookups(
              db, CuratedTerm(curation_term_norm, curated_synonym,
                              curation_associated_id_set),
              FALSE)}

\* the add with the bug of replacing the stored term when the target is not
\* contained in it
attempt_to_add_overwriting(db, curation_term_norm, curation_associated_id_set, curated_synonym) ==
    IF curation_term_norm \in DOMAIN db.terms_by_term_norm
    THEN LET maybe_existing_synonym_term == db.terms_by_term_norm[curation_term_norm]
         IN IF curation_associated_id_set \subseteq
                   maybe_existing_synonym_term.associated_id_sets
            THEN {[db |-> db, result |-> "NO_ACTION"]}
            ELSE {update_term_lookups(
                      db, CuratedTerm(curation_term_norm, curated_synonym,
                                      curation_associated_id_set),
                      TRUE)}
    ELSE add_entry_for_new_term_norm(db, curation_term_norm, curation_associated_id_set,
                                     curated_synonym)

\* _attempt_to_add_database_entry_for_curation
attempt_to_add_database_entry_for_curation(db, curation_term_norm, curation_associated_id_set, curated_synonym) ==
    IF curation_term_norm \in DOMAIN db.terms_by_term_norm
    THEN LET maybe_existing_synonym_term == db.terms_by_term_norm[curation_term_norm]
         IN IF curation_associated_id_set \subseteq
                   maybe_existing_synonym_term.associated_id_sets
            THEN {[db |-> db, result |-> "NO_ACTION"]}
            ELSE {[db |-> db, result |-> "CurationException"]}
    ELSE add_entry_for_new_term_norm(db, curation_term_norm, curation_associated_id_set,
                                     curated_synonym)

\* ---------------------------------------------- CurationProcessor: curations
\* a Curation: its curated synonym string, its source_term (NoneVal when it
\* does not inherit) and its tuple of SynonymTermActions
Curation(curated_synonym, source_term, actions) ==
    [curated_synonym |-> curated_synonym, source_term |-> source_term, actions |-> actions]

SynonymTermAction(behaviour, associated_id_sets) ==
    [behaviour |-> behaviour, associated_id_sets |-> associated_id_sets]

\* Curation.curated_synonym_norm
curated_synonym_norm(curation) == normalize(curation.curated_synonym)

\* Curation.term_norm_for_linking: an inheriting curation links through the
\* term_norm of its source term
term_norm_for_linking(curation) ==
    IF curation.source_term = NoneVal
    THEN normalize(curation.curated_synonym)
    ELSE normalize(curation.source_term)

IsAddBehaviour(behaviour) ==
    behaviour \in {"ADD_FOR_NER_AND_LINKING", "ADD_FOR_LINKING_ONLY"}

\* the keys a curation is listed under by CurationProcessor.__init__
curation_index_keys(curation) ==
    UNION {IF curation.actions[k].associated_id_sets = NoneIdSets
           THEN {NoneVal}
           ELSE UNION curation.actions[k].associated_id_sets
           : k \in DOMAIN curation.actions}

\* CurationProcessor.__init__, the curation loop: _curations_by_id
index_curations(cs) ==
    LET keys == UNION {curation_index_keys(c) : c \in cs}
    IN [key \in keys |-> {c \in cs : key \in curation_index_keys(c)}]

\* the new_actions list _drop_id_from_curation builds for one curation
RECURSIVE new_actions_after_drop(_, _, _)
new_actions_after_drop(actions, idx, k) ==
    IF k > Len(actions) THEN <<>>
    ELSE LET action == actions[k]
             rest == new_actions_after_drop(actions, idx, k + 1)
         IN IF action.associated_id_sets = NoneIdSets
            THEN <<action>> \o rest
            ELSE LET updated_assoc_id_set ==
                         drop_id_from_associated_id_sets(idx, action.associated_id_sets)
                 IN IF updated_assoc_id_set = {}
                    THEN rest
                    ELSE <<[action EXCEPT !.associated_id_sets = updated_assoc_id_set]>>
                         \o rest

\* the loop of _drop_id_from_curation over the affected curations, visited in
\* the order curseq; set.remove of a curation that is not there raises KeyError
RECURSIVE drop_id_from_curation_loop(_, _, _, _)
drop_id_from_curation_loop(acc, idx, curseq, k) ==
    IF k > Len(curseq) \/ IsException(acc.result) THEN acc
    ELSE LET affected_curation == curseq[k]
             new_actions == new_actions_after_drop(affected_curation.actions, idx, 1)
             new_curation == [affected_curation EXCEPT !.actions = new_actions]
             added_curations == IF new_actions # <<>>
                                THEN acc.curations \cup {new_curation}
                                ELSE acc.curations
             added_by_id == IF new_actions # <<>>
                            THEN [acc.curations_by_id EXCEPT ![idx] = @ \cup {new_curation}]
                            ELSE acc.curations_by_id
         IN IF affected_curation \notin added_curations
            THEN [curations |-> added_curations, curations_by_id |-> added_by_id,
                  result |-> "KeyError"]
            ELSE IF affected_curation \notin added_by_id[idx]
            THEN [curations |-> added_curations \ {affected_curation},
                  curations_by_id |-> added_by_id, result |-> "KeyError"]
            ELSE drop_id_from_curation_loop(
                     [curations |-> added_curations \ {affected_curation},
                      curations_by_id |-> [added_by_id EXCEPT ![idx] = @ \ {affected_curation}],
                      result |-> "OK"],
                     idx, curseq, k + 1)

\* _drop_id_from_curation: set(None) raises TypeError when no curation is
\* listed under idx
drop_id_from_curation(cs, by_id, idx) ==
    IF idx \notin DOMAIN by_id
    THEN {[curations |-> cs, curations_by_id |-> by_id, result |-> "TypeError"]}
    ELSE {drop_id_from_curation_loop(
              [curations |-> cs, curations_by_id |-> by_id, result |-> "OK"],
              idx, curseq, 1)
          : curseq \in Perms(by_id[idx])}

\* the conflict scan with the bug of looking at ADD_FOR_NER_AND_LINKING only
conflicting_id_sets_ner_only(potentially_conflicting_curations) ==
    {c.actions[k].associated_id_sets :
        <<c, k>> \in {ck \in potentially_conflicting_curations \X (1..MaxActions) :
                         /\ ck[2] \in DOMAIN ck[1].actions
                         /\ ck[1].actions[ck[2]].behaviour = "ADD_FOR_NER_AND_LINKING"}}

\* the AssociatedIdSets the add actions of a set of curations ask for
conflicting_id_sets(potentially_conflicting_curations) ==
    {c.actions[k].associated_id_sets :
        <<c, k>> \in {ck \in potentially_conflicting_curations \X (1..MaxActions) :
                         /\ ck[2] \in DOMAIN ck[1].actions
                         /\ IsAddBehaviour(ck[1].actions[ck[2]].behaviour)}}

\* the analysis with safe.update run for every term_norm, conflicting or not
analyse_conflicts_keeping_all_safe(cs) ==
    LET inherited == {c \in cs : c.source_term # NoneVal}
        curations_by_term_norm ==
            [term_norm \in {curated_synonym_norm(c) : c \in cs \ inherited} |->
                {c \in cs \ inherited : curated_synonym_norm(c) = term_norm}]
        conflicting == {term_norm \in DOMAIN curations_by_term_norm :
                           Cardinality(conflicting_id_sets(
                               curations_by_term_norm[term_norm])) > 1}
    IN [safe |-> cs,
        conflicts |-> {curations_by_term_norm[term_norm] : term_norm \in conflicting}]

\* analyse_conflicts_in_curations
analyse_conflicts_in_curations(cs) ==
    LET inherited == {c \in cs : c.source_term # NoneVal}
        curations_by_term_norm ==
            [term_norm \in {curated_synonym_norm(c) : c \in cs \ inherited} |->
                {c \in cs \ inherited : curated_synonym_norm(c) = term_norm}]
        conflicting == {term_norm \in DOMAIN curations_by_term_norm :
                           Cardinality(conflicting_id_sets(
                               curations_by_term_norm[term_norm])) > 1}
    IN [safe |-> inherited \cup
                 UNION {curations_by_term_norm[term_norm]
                        : term_norm \in (DOMAIN curations_by_term_norm) \ conflicting},
        conflicts |-> {curations_by_term_norm[term_norm] : term_norm \in conflicting}]

\* the loop of _process_curation from action k on: the set of outcomes
\* [db, returned, result]; returned tells whether the curation is returned
\* (for the NER list) rather than None
RECURSIVE process_curation_from(_, _, _)
process_curation_from(db, curation, k) ==
    IF k > Len(curation.actions)
    THEN {[db |-> db, returned |-> FALSE, result |-> "OK"]}
    ELSE LET action == curation.actions[k]
             term_norm == term_norm_for_linking(curation)
         IN CASE action.behaviour = "IGNORE" ->
                   {[db |-> db, returned |-> FALSE, result |-> "OK"]}
              [] action.behaviour = "INHERIT_FROM_SOURCE_TERM" ->
                   {[db |-> db,
                     returned |-> term_norm \in DOMAIN db.terms_by_term_norm,
                     result |-> "OK"]}
              [] action.behaviour = "DROP_SYNONYM_TERM_FOR_LINKING" ->
                   {[db |-> drop_synonym_term(db, term_norm).db,
                     returned |-> FALSE, result |-> "OK"]}
              [] action.behaviour = "DROP_ID_SET_FROM_SYNONYM_TERM" ->
                   UNION {IF IsException(r.result)
                          THEN {[db |-> r.db, returned |-> FALSE, result |-> r.result]}
                          ELSE process_curation_from(r.db, curation, k + 1)
                          : r \in drop_id_set_from_synonym_term(
                                      db, action.associated_id_sets, term_norm)}
              [] IsAddBehaviour(action.behaviour) ->
                   {[db |-> r.db,
                     returned |-> ~IsException(r.result),
                     result |-> IF IsException(r.result) THEN r.result ELSE "OK"]
                    : r \in attempt_to_add_database_entry_for_curation(
                                db, term_norm, action.associated_id_sets,
                                curation.curated_synonym)}

\* _process_curation
process_curation(db, curation) == process_curation_from(db, curation, 1)

\* -------------------------------------------------------- MappingStrategy
\* Python's None for a strategy name
NoneStr == "None"

\* LinkRanks, the confidence labels of a Mapping
LinkRanks == {"HIGHLY_LIKELY", "PROBABLE", "POSSIBLE", "AMBIGUOUS"}

\* the class names of the disambiguation strategies that can be configured
DisambiguationStrategyNames ==
    {"DefinedElsewhereInDocumentDisambiguationStrategy", "TfIdfDisambiguationStrategy"}

\* SynonymTerm.is_ambiguous
is_ambiguous(term) == Cardinality(term.associated_id_sets) > 1

\* MappingStrategy.filter_terms and its overrides: the terms kept are some of
\* the terms given (all of them for the base class, possibly none)
filter_terms(terms) == SUBSET terms

\* disambiguate_if_required, the first loop: all_id_sets
all_id_sets(filtered_terms) == UNION {term.associated_id_sets : term \in filtered_terms}

\* disambiguate_if_required, the first loop: disambiguation_required
disambiguation_required(filtered_terms) ==
    Cardinality(filtered_terms) > 1 \/ \E term \in filtered_terms : is_ambiguous(term)

\* DisambiguationStrategy.__call__: prepare, then disambiguate, which subsets
\* the id sets it is given
strategy_call(id_sets) == SUBSET id_sets

\* the wrong test of a strategy's output: any non-empty output is taken
strategy_succeeded_if_nonempty(filtered_id_sets) == Cardinality(filtered_id_sets) >= 1

\* disambiguate_if_required: the test that ends the strategy loop
strategy_succeeded(filtered_id_sets) == Cardinality(filtered_id_sets) = 1

\* the confidence with the downgrade forgotten
mapping_confidence_as_configured(id_sets, confidence) == confidence

\* MappingStrategy.__call__: the confidence handed to the MappingFactory
mapping_confidence(id_sets, confidence) ==
    IF Cardinality(id_sets) = 1 THEN confidence ELSE "AMBIGUOUS"

\* ids above UrlBase are URLs: the id UrlBase + k is a URL whose last path
\* segment is the string of the id k
UrlBase == 10

\* MappingFactory.create_mapping, strip_url: new_idx is the last path segment
\* of an idx that parses as a URL with a scheme, and idx itself otherwise
strip_url(idx) == IF idx > UrlBase THEN idx - UrlBase ELSE idx

\* MappingFactory.create_mapping: the fields of a Mapping that the strategy
\* decides (label, source and metadata come from the metadata database)
create_mapping(idx, mapping_strategy, disambiguation_strategy, confidence) ==
    [idx |-> strip_url(idx), mapping_strategy |-> mapping_strategy,
     disambiguation_strategy |-> disambiguation_strategy, confidence |-> confidence]

\* MappingFactory.create_mapping_from_id_set: the Mappings yielded for one
\* EquivalentIdSet, in every order its ids can be iterated
create_mapping_from_id_set(id_set, mapping_strategy, disambiguation_strategy, confidence) ==
    {[k \in 1..Len(idseq) |->
         create_mapping(idseq[k], mapping_strategy, disambiguation_strategy, confidence)]
     : idseq \in Perms(id_set)}

\* the loop of create_mapping_from_id_sets over the id sets in the order setseq
RECURSIVE create_mappings_in_order(_, _, _, _)
create_mappings_in_order(setseq, mapping_strategy, disambiguation_strategy, confidence) ==
    IF setseq = <<>> THEN {<<>>}
    ELSE {first \o rest :
             first \in create_mapping_from_id_set(Head(setseq), mapping_strategy,
                                                  disambiguation_strategy, confidence),
             rest \in create_mappings_in_order(Tail(setseq), mapping_strategy,
                                               disambiguation_strategy, confidence)}

\* MappingFactory.create_mapping_from_id_sets
create_mapping_from_id_sets(id_sets, mapping_strategy, disambiguation_strategy, confidence) ==
    UNION {create_mappings_in_order(setseq, mapping_strategy, disambiguation_strategy,
                                    confidence)
           : setseq \in Perms(id_sets)}

\* ------------------------------------- OntologyParser.score_and_group_ids
\* the ids that one normalised synonym can refer to (resolve_synonyms pairs
\* every id with the one source find_kb gives it, so an id set stands for
\* ids_and_source)
NumGroupIds == 3
GroupIds == 1..NumGroupIds

\* similarity values of a StringSimilarityScorer and values of
\* synonym_merge_threshold, in tenths
Scores == {1, 7, 9}
Thresholds == {5, 7}

\* the DEFAULT_LABEL the metadata database holds for an id: one label per id
default_label(idx) == idx

\* the calls score_and_group_ids makes to the scorer: the label of the id at
\* hand against the label of an id already in a cluster
LabelPairs == {p \in GroupIds \X GroupIds : default_label(p[1]) # default_label(p[2])}

\* a StringSimilarityScorer: a value for every ordered pair of labels
StringScorers == [LabelPairs -> Scores]

\* the largest element of a non-empty set of numbers
Max(S) == CHOOSE x \in S : \A y \in S : y <= x

\* score_and_group_ids, string_scorer is None: a set for each id
no_strategy_id_sets_merged(ids) == {ids}

no_strategy_id_sets(ids) == {{idx} : idx \in ids}

\* the strategy with the test for a single id after the test for symbolic
aggregation_strategy_symbolic_first(ids, is_symbolic) ==
    IF ~is_symbolic THEN "MERGED_AS_NON_SYMBOLIC"
    ELSE IF Cardinality(ids) = 1 THEN "UNAMBIGUOUS"
    ELSE "RESOLVED_BY_SIMILARITY"

\* score_and_group_ids, string_scorer configured: the branch taken
aggregation_strategy(ids, is_symbolic) ==
    IF Cardinality(ids) = 1 THEN "UNAMBIGUOUS"
    ELSE IF ~is_symbolic THEN "MERGED_AS_NON_SYMBOLIC"
    ELSE "RESOLVED_BY_SIMILARITY"

\* the merge test that takes the last cluster above the threshold
is_more_similar_ignoring_best(sim, best_score, threshold) == sim > threshold

\* score_and_group_ids: the test that makes a cluster the most similar so far
is_more_similar(sim, best_score, threshold) == sim > threshold /\ sim > best_score

\* score_and_group_ids: sim, the best score of a label against a cluster
similarity(string_scorer, label, id_and_default_label_set) ==
    Max({string_scorer[<<label, default_label(other)>>] : other \in id_and_default_label_set})

\* score_and_group_ids, the inner loop over id_list from position k: the
\* position of most_similar_id_set (0 for None)
RECURSIVE most_similar_id_set(_, _, _, _, _, _, _)
most_similar_id_set(id_list, label, string_scorer, threshold, k, most_similar, best_score) ==
    IF k > Len(id_list) THEN most_similar
    ELSE LET sim == similarity(string_scorer, label, id_list[k])
         IN IF is_more_similar(sim, best_score, threshold)
            THEN most_similar_id_set(id_list, label, string_scorer, threshold, k + 1, k, sim)
            ELSE most_similar_id_set(id_list, label, string_scorer, threshold, k + 1,
                                     most_similar, best_score)

\* the outer loop with an id joining every cluster above the threshold
RECURSIVE group_by_similarity_joining_all(_, _, _, _, _, _)
group_by_similarity_joining_all(idseq, k, id_list, steps, string_scorer, threshold) ==
    IF k > Len(idseq) THEN [id_list |-> id_list, steps |-> steps]
    ELSE LET idx == idseq[k]
             above == {j \in DOMAIN id_list :
                          similarity(string_scorer, default_label(idx), id_list[j]) > threshold}
             step == [idx |-> idx, before |-> Range(id_list),
                      joined |-> IF above = {} THEN {} ELSE id_list[Max(above)]]
         IN IF above = {}
            THEN group_by_similarity_joining_all(idseq, k + 1, Append(id_list, {idx}),
                                                 Append(steps, step), string_scorer, threshold)
            ELSE group_by_similarity_joining_all(idseq, k + 1,
                     [j \in DOMAIN id_list |->
                         IF j \in above THEN id_list[j] \cup {idx} ELSE id_list[j]],
                     Append(steps, step), string_scorer, threshold)

\* the outer loop with the clusters formed so far dissolved whenever an id
\* starts a cluster of its own
RECURSIVE group_by_similarity_regrouping(_, _, _, _, _, _)
group_by_similarity_regrouping(idseq, k, id_list, steps, string_scorer, threshold) ==
    IF k > Len(idseq) THEN [id_list |-> id_list, steps |-> steps]
    ELSE LET idx == idseq[k]
             most_similar == most_similar_id_set(id_list, default_label(idx), string_scorer,
                                                 threshold, 1, 0, 0)
             step == [idx |-> idx, before |-> Range(id_list),
                      joined |-> IF most_similar = 0 THEN {} ELSE id_list[most_similar]]
         IN IF most_similar = 0
            THEN group_by_similarity_regrouping(idseq, k + 1, [j \in 1..k |-> {idseq[j]}],
                                                Append(steps, step), string_scorer, threshold)
            ELSE group_by_similarity_regrouping(idseq, k + 1,
                                                [id_list EXCEPT ![most_similar] = @ \cup {idx}],
                                                Append(steps, step), string_scorer, threshold)

\* score_and_group_ids, the outer loop over the ids in the order idseq from
\* position k: id_list at the end, and per id the clusters it met and the
\* cluster it joined (the empty set when it started a cluster)
RECURSIVE group_by_similarity(_, _, _, _, _, _)
group_by_similarity(idseq, k, id_list, steps, string_scorer, threshold) ==
    IF k > Len(idseq) THEN [id_list |-> id_list, steps |-> steps]
    ELSE LET idx == idseq[k]
             most_similar == most_similar_id_set(id_list, default_label(idx), string_scorer,
                                                 threshold, 1, 0, 0)
             step == [idx |-> idx, before |-> Range(id_list),
                      joined |-> IF most_similar = 0 THEN {} ELSE id_list[most_similar]]
         IN IF most_similar = 0
            THEN group_by_similarity(idseq, k + 1, Append(id_list, {idx}),
                                     Append(steps, step), string_scorer, threshold)
            ELSE group_by_similarity(idseq, k + 1,
                                     [id_list EXCEPT ![most_similar] = @ \cup {idx}],
                                     Append(steps, step), string_scorer, threshold)

\* score_and_group_ids: every outcome the iteration order of ids_and_source
\* allows (string_scorer is {} for None, {scorer} otherwise)
score_and_group_ids(ids, is_symbolic, string_scorer, threshold) ==
    IF string_scorer = {}
    THEN {[associated_id_sets |-> no_strategy_id_sets(ids),
           aggregated_by |-> "NO_STRATEGY", steps |-> <<>>]}
    ELSE IF aggregation_strategy(ids, is_symbolic) # "RESOLVED_BY_SIMILARITY"
    THEN {[associated_id_sets |-> {ids},
           aggregated_by |-> aggregation_strategy(ids, is_symbolic), steps |-> <<>>]}
    ELSE LET scorer == CHOOSE f \in string_scorer : TRUE
         IN {LET r == group_by_similarity(idseq, 1, <<>>, <<>>, scorer, threshold)
             IN [associated_id_sets |-> Range(r.id_list),
                 aggregated_by |-> "RESOLVED_BY_SIMILARITY", steps |-> r.steps]
             : idseq \in Perms(ids)}

\* OpenTargetsTargetOntologyParser.score_and_group_ids and
\* CellosaurusOntologyParser.score_and_group_ids: the overrides
custom_score_and_group_ids(ids, is_symbolic) ==
    [associated_id_sets |-> {{idx} : idx \in ids}, aggregated_by |-> "CUSTOM", steps |-> <<>>]

\* ------------------------- StrongMatchMappingStrategy, TermNormIsSubString
\* a string is the sequence of its characters; str.split(" ") from position
\* k, with cur the token being read and acc the tokens read
RECURSIVE split_from(_, _, _, _)
split_from(string, k, cur, acc) ==
    IF k > Len(string) THEN Append(acc, cur)
    ELSE IF string[k] = " " THEN split_from(string, k + 1, <<>>, Append(acc, cur))
    ELSE split_from(string, k + 1, Append(cur, string[k]), acc)

split(string) == split_from(string, 1, <<>>, <<>>)

\* a SynonymTermWithMetrics as the two strategies read it; search_score is
\* {} for None and {score} otherwise
SynonymTermWithMetrics(norm, symbolic, score) ==
    [term_norm |-> norm, is_symbolic |-> symbolic, search_score |-> score]

search_score_of(term) == CHOOSE score \in term.search_score : TRUE

\* StrongMatchMappingStrategy.filter_terms: relevant_terms_with_scores
relevant_terms_with_scores(terms, symbolic_only) ==
    {term \in terms : /\ symbolic_only => term.is_symbolic
                      /\ term.search_score # {}}

\* the test that keeps every relevant term at or above the threshold
is_strong_match_by_threshold(score, best_score, search_threshold, differential) ==
    score >= search_threshold

\* StrongMatchMappingStrategy.filter_terms: the test on a relevant term
is_strong_match(score, best_score, search_threshold, differential) ==
    score >= search_threshold /\ best_score - score <= differential

StrongMatch_filter_terms(terms, search_threshold, symbolic_only, differential) ==
    LET relevant == relevant_terms_with_scores(terms, symbolic_only)
    IN IF Cardinality(relevant) = 0 THEN {}
       ELSE LET best_score == Max({search_score_of(term) : term \in relevant})
            IN {term \in relevant :
                   is_strong_match(search_score_of(term), best_score,
                                   search_threshold, differential)}

\* TermNormIsSubStringMappingStrategy.filter_terms: filtered_terms_and_len
filtered_terms_and_len(ent_match_norm, terms, min_term_norm_len_to_consider) ==
    LET norm_tokens == Range(split(ent_match_norm))
    IN {term \in terms : /\ term.term_norm \in norm_tokens
                         /\ Len(term.term_norm) >= min_term_norm_len_to_consider}

\* TermNormIsSubStringMappingStrategy.filter_terms: the loop over the groups
\* of equal length, longest first, lens being the lengths not yet visited
RECURSIVE first_group_of_one(_, _)
first_group_of_one(filtered, lens) ==
    IF lens = {} THEN {}
    ELSE LET len == Max(lens)
             terms_and_len_list == {term \in filtered : Len(term.term_norm) = len}
         IN IF Cardinality(terms_and_len_list) = 1 THEN terms_and_len_list
            ELSE first_group_of_one(filtered, lens \ {len})

TermNormIsSubString_filter_terms(ent_match_norm, terms, min_term_norm_len_to_consider) ==
    LET filtered == filtered_terms_and_len(ent_match_norm, terms,
                                           min_term_norm_len_to_consider)
    IN first_group_of_one(filtered, {Len(term.term_norm) : term \in filtered})

\* ---------------------------------------------- TfIdfDisambiguationStrategy
\* the documents of a pipeline run, the strategy instances configured for it
\* and the number of times the entities of a document change
NumDocs == 2
NumTfIdfStrategies == 2
MaxDocChanges == 2
Docs == 1..NumDocs
TfIdfStrategies == 1..NumTfIdfStrategies

\* cacheable_build_document_representation, the body: the scorer's transform
\* of the match_norm of the entities the document holds at that time
build_document_representation(doc, entities) == [doc |-> doc, entities |-> entities]

\* cacheable_build_document_representation under functools.lru_cache: keyed
\* by the scorer and the document object (a Document hashes by its idx, its
\* entities take no part); one scorer, and fewer documents than maxsize
cacheable_build_document_representation(t, doc) ==
    IF doc \in DOMAIN t.build_cache THEN t
    ELSE [t EXCEPT !.build_cache =
             DictPut(@, doc, build_document_representation(doc, t.docs[doc]))]

\* TfIdfDisambiguationStrategy.prepare under functools.lru_cache(maxsize=1):
\* one cache for all instances, keyed by (self, document); on a hit the body
\* does not run, on a miss the key replaces the cached one
prepare(t, strategy, doc) ==
    IF <<strategy, doc>> \in t.prepare_cache THEN t
    ELSE LET built == cacheable_build_document_representation(t, doc)
         IN [built EXCEPT !.reps[strategy] = {built.build_cache[doc]},
                          !.prepare_cache = {<<strategy, doc>>}]

\* TfIdfDisambiguationStrategy.disambiguate: document_query_matrix is read
\* from parser_name_to_doc_representation
disambiguate(t, strategy, doc) ==
    [t EXCEPT !.read = {[strategy |-> strategy, doc |-> doc, entities |-> t.docs[doc],
                         document_query_matrix |-> t.reps[strategy]]}]

\* DisambiguationStrategy.__call__
disambiguation_strategy_call(t, strategy, doc) ==
    disambiguate(prepare(t, strategy, doc), strategy, doc)

\* ------------------------------------------------------- the steps' _run
\* the result of a _run: did the exception leave _run, the documents whose
\* metadata got PROCESSING_EXCEPTION, the failed-documents list, the
\* documents returned, and the documents whose processing raised
RunResult(propagated, marked, failed_docs, returned_docs, affected) ==
    [propagated |-> propagated, marked |-> marked, failed_docs |-> failed_docs,
     returned_docs |-> returned_docs, affected |-> affected]

\* DictionaryEntityLinkingStep._run, the loop over ents_by_match_and_class
\* from position k. groups[k] is the set of documents that own the entities
\* of the k-th (match, class); outcomes[k] says what happens to it:
\*   "cached"        check_lookup_cache leaves no cache-missed entity
\*   "searched"      the body of the try block runs to its end
\*   "check_raises"  check_lookup_cache raises (it is called before the try)
\*   "search_raises" index.search, update_terms or the cache update raises
\* the result is a set: failed_docs.extend(failed_docs_set) iterates a set
RECURSIVE dictionary_run_from(_, _, _, _, _)
dictionary_run_from(docs, groups, outcomes, k, r) ==
    IF k > Len(groups) THEN {[r EXCEPT !.returned_docs = docs]}
    ELSE IF outcomes[k] = "check_raises"
    THEN {[r EXCEPT !.propagated = TRUE, !.affected = @ \cup groups[k]]}
    ELSE IF outcomes[k] = "search_raises"
    THEN UNION {dictionary_run_from(docs, groups, outcomes, k + 1,
                    [r EXCEPT !.marked = @ \cup groups[k],
                              !.failed_docs = @ \o failed_docs_set,
                              !.affected = @ \cup groups[k]])
                : failed_docs_set \in Perms(groups[k])}
    ELSE dictionary_run_from(docs, groups, outcomes, k + 1, r)

DictionaryEntityLinkingStep_run(docs, groups, outcomes) ==
    dictionary_run_from(docs, groups, outcomes, 1, RunResult(FALSE, {}, <<>>, {}, {}))

\* the (section, doc) pairs texts_and_sections yields: the documents in list
\* order, each with its sections in order
RECURSIVE texts_and_sections(_, _)
texts_and_sections(docseq, sections) ==
    IF docseq = <<>> THEN <<>>
    ELSE [sec \in 1..sections[Head(docseq)] |-> <<sec, Head(docseq)>>]
         \o texts_and_sections(Tail(docseq), sections)

\* ExplosionStringMatchingStep._run: raise_at = 0 when nothing raises, else
\* the position in texts_and_sections of the section whose processing raises
ExplosionStringMatchingStep_run(docs, sections, raise_at) ==
    LET items == texts_and_sections(SortedSeq(docs), sections)
    IN IF raise_at = 0 THEN RunResult(FALSE, {}, <<>>, docs, {})
       ELSE RunResult(FALSE, docs, SortedSeq(docs), docs, {items[raise_at][2]})

\* RuleBasedNerAndLinkingStep._run: the sections before raise_at are in
\* doc_to_processed_sections; the documents with a section that is not are
\* failed
RuleBasedNerAndLinkingStep_run(docs, sections, raise_at) ==
    LET items == texts_and_sections(SortedSeq(docs), sections)
        processed == {items[k] : k \in 1..(raise_at - 1)}
        failed == {doc \in docs : \E sec \in 1..sections[doc] : <<sec, doc>> \notin processed}
    IN IF raise_at = 0 THEN RunResult(FALSE, {}, <<>>, docs, {})
       ELSE RunResult(FALSE, failed, SortedSeq(failed), {}, {items[raise_at][2]})

\* -------- StrongMatchWithEmbeddingConfirmationStringMatchingStrategy
\* a candidate term with its AssociatedIdSets and the answer
\* complex_string_scorer gives for the mention and next(iter(term.terms))
TermToConfirm(norm, symbolic, score, id_sets, confirmed) ==
    [term_norm |-> norm, is_symbolic |-> symbolic, search_score |-> score,
     associated_id_sets |-> id_sets, confirmed |-> confirmed]

\* sorted(..., key=search_score, reverse=True) of a set: the sort is stable,
\* so terms of equal score come in the order the set is iterated in
sorted_by_score(terms) ==
    {seq \in Perms(terms) :
        \A i, j \in DOMAIN seq :
           i < j => search_score_of(seq[i]) >= search_score_of(seq[j])}

\* the loop with the id sets remembered only for the terms that are confirmed
RECURSIVE select_confirmed_remembering_late(_, _, _, _)
select_confirmed_remembering_late(seq, k, selected_id_sets, selected_terms) ==
    IF k > Len(seq) THEN selected_terms
    ELSE LET term == seq[k]
         IN IF term.associated_id_sets \notin selected_id_sets /\ term.confirmed
            THEN select_confirmed_remembering_late(seq, k + 1,
                     selected_id_sets \cup {term.associated_id_sets},
                     selected_terms \cup {term})
            ELSE select_confirmed_remembering_late(seq, k + 1, selected_id_sets,
                                                   selected_terms)

\* filter_terms, the loop over synonym_term_sorted_by_score from position k
RECURSIVE select_confirmed(_, _, _, _)
select_confirmed(seq, k, selected_id_sets, selected_terms) ==
    IF k > Len(seq) THEN selected_terms
    ELSE LET term == seq[k]
         IN IF term.associated_id_sets \notin selected_id_sets
            THEN select_confirmed(seq, k + 1,
                     selected_id_sets \cup {term.associated_id_sets},
                     IF term.confirmed THEN selected_terms \cup {term}
                     ELSE selected_terms)
            ELSE select_confirmed(seq, k + 1, selected_id_sets, selected_terms)

\* StrongMatchWithEmbeddingConfirmationStringMatchingStrategy.filter_terms:
\* every outcome the iteration order of the set allows, with the order taken
EmbeddingConfirmation_filter_terms(terms, search_threshold, symbolic_only, differential) ==
    {[visited |-> seq, result |-> select_confirmed(seq, 1, {}, {})]
     : seq \in sorted_by_score(StrongMatch_filter_terms(terms, search_threshold,
                                                       symbolic_only, differential))}

\* -------- AnnotationLevelDisambiguationStrategy
\* the annotation_score with entries that lack it counted below every score
annotation_score_absent_lowest(metadata, idx) ==
    IF metadata[idx] = {} THEN -2 ELSE CHOOSE score \in metadata[idx] : TRUE

\* metadata_db.get_by_idx(parser_name, idx).get("annotation_score", 0); the
\* metadata of an id is {} when it has no annotation_score and {score} else
annotation_score(metadata, idx) ==
    IF metadata[idx] = {} THEN 0 ELSE CHOOSE score \in metadata[idx] : TRUE

\* score_to_id_set after the two loops: a defaultdict(set) whose keys are the
\* scores met
score_to_id_set(id_sets, metadata) ==
    LET keys == {annotation_score(metadata, idx) : idx \in UNION id_sets}
    IN [score \in keys |->
           {id_set \in id_sets :
               \E idx \in id_set : annotation_score(metadata, idx) = score}]

\* max(score_to_id_set.keys()) raises ValueError when there is no key
annotation_level_raises(id_sets, metadata) ==
    DOMAIN score_to_id_set(id_sets, metadata) = {}

\* AnnotationLevelDisambiguationStrategy.disambiguate
AnnotationLevel_disambiguate(id_sets, metadata) ==
    LET by_score == score_to_id_set(id_sets, metadata)
        best == Max(DOMAIN by_score)
    IN by_score[best]

\* -------- RulesBasedEntityClassDisambiguationFilterStep
\* an Entity as the step reads it: its match, its class and the rules that
\* match its sentence when they are configured (a subset of RuleNames)
RuleNames == {"class_tp", "class_fp", "mention_tp", "mention_fp"}
RuledEntity(match, entity_class, hits) ==
    [match |-> match, entity_class |-> entity_class, hits |-> hits]

key_of(entity) == <<entity.match, entity.entity_class>>

\* _check_matcher: maybe_matcher is None when the rule type is not configured
check_matcher(configured, hit) ==
    IF ~configured THEN "NOT_CONFIGURED" ELSE IF hit THEN "HIT" ELSE "MISS"

\* _check_tp_fp_matcher_rules: matchers is the set of rule types configured,
\* {} when the lookup gave None
check_tp_fp_matcher_rules(matchers, tp_hit, fp_hit) ==
    IF matchers = {} THEN <<"NOT_CONFIGURED", "NOT_CONFIGURED">>
    ELSE <<check_matcher("tp" \in matchers, tp_hit),
           check_matcher("fp" \in matchers, fp_hit)>>

tp_allowed_values == {"HIT", "NOT_CONFIGURED"}

\* self.class_matchers.get(entity_class) and
\* self.mention_matchers.get(entity_class, {}).get(entity.match)
maybe_class_matchers(class_matchers, entity) == class_matchers[entity.entity_class]
maybe_mention_matchers(mention_matchers, entity) == mention_matchers[key_of(entity)]

class_results(class_matchers, entity) ==
    check_tp_fp_matcher_rules(maybe_class_matchers(class_matchers, entity),
                              "class_tp" \in entity.hits, "class_fp" \in entity.hits)

mention_results(mention_matchers, entity) ==
    check_tp_fp_matcher_rules(maybe_mention_matchers(mention_matchers, entity),
                              "mention_tp" \in entity.hits, "mention_fp" \in entity.hits)

\* __call__, the first loop: the entities that are not skipped by `continue`
\* fill the four key_requires_* dicts and the four result dicts for their key
rule_results(class_matchers, mention_matchers, entities) ==
    LET ruled == {i \in DOMAIN entities :
                    \/ maybe_class_matchers(class_matchers, entities[i]) # {}
                    \/ maybe_mention_matchers(mention_matchers, entities[i]) # {}}
        keys == {key_of(entities[i]) : i \in ruled}
        of(key) == {entities[i] : i \in {j \in ruled : key_of(entities[j]) = key}}
        one(key) == CHOOSE e \in of(key) : TRUE
    IN [keys |-> keys,
        key_requires_class_tp |->
            [key \in keys |-> class_results(class_matchers, one(key))[1] # "NOT_CONFIGURED"],
        key_requires_class_fp |->
            [key \in keys |-> class_results(class_matchers, one(key))[2] # "NOT_CONFIGURED"],
        key_requires_mention_tp |->
            [key \in keys |-> mention_results(mention_matchers, one(key))[1] # "NOT_CONFIGURED"],
        key_requires_mention_fp |->
            [key \in keys |-> mention_results(mention_matchers, one(key))[2] # "NOT_CONFIGURED"],
        ent_tp_class_results |->
            [key \in keys |-> {(class_results(class_matchers, e)[1] \in tp_allowed_values) : e \in of(key)}],
        ent_fp_class_results |->
            [key \in keys |-> {(class_results(class_matchers, e)[2] = "HIT") : e \in of(key)}],
        ent_tp_mention_results |->
            [key \in keys |-> {(mention_results(mention_matchers, e)[1] \in tp_allowed_values) : e \in of(key)}],
        \* line 170 adds fp_class_result, not fp_mention_result
        ent_fp_mention_results |->
            [key \in keys |-> {(class_results(class_matchers, e)[2] = "HIT") : e \in of(key)}]]

\* the test of the second loop for an entity whose key is in the dicts
is_removed(r, key) ==
    \/ r.key_requires_class_fp[key] /\ TRUE \in r.ent_fp_class_results[key]
    \/ r.key_requires_class_tp[key] /\ TRUE \notin r.ent_tp_class_results[key]
    \/ r.key_requires_mention_fp[key] /\ TRUE \in r.ent_fp_mention_results[key]
    \/ r.key_requires_mention_tp[key] /\ TRUE \notin r.ent_tp_mention_results[key]

\* __call__, the second loop from entity i: key_requires_class_fp[key] raises
\* KeyError for a key the first loop skipped, and the loop ends there
RECURSIVE remove_entities_from(_, _, _, _)
remove_entities_from(entities, r, i, kept) ==
    IF i > Len(entities) THEN [raised |-> FALSE, kept |-> kept]
    ELSE LET key == key_of(entities[i])
         IN IF key \notin r.keys THEN [raised |-> TRUE, kept |-> kept]
            ELSE remove_entities_from(entities, r, i + 1,
                     IF is_removed(r, key) THEN kept \ {i} ELSE kept)

\* RulesBasedEntityClassDisambiguationFilterStep.__call__ on one document:
\* the positions of the entities left in their sections, and whether the
\* call raised
rules_based_filter_call(class_matchers, mention_matchers, entities) ==
    remove_entities_from(entities,
                         rule_results(class_matchers, mention_matchers, entities),
                         1, DOMAIN entities)

\* -------- the provided disambiguation strategies, as MappingStrategy calls them
ProvidedStrategyNames ==
    {"DefinedElsewhereInDocumentDisambiguationStrategy", "TfIdfDisambiguationStrategy",
     "AnnotationLevelDisambiguationStrategy"}

\* the ids of the parser: two plain ids and the URL that ends in the first
MapIds == {1, 2, UrlBase + 1}

\* DefinedElsewhereInDocumentDisambiguationStrategy.disambiguate; mapped_ids
\* holds the ids of the (parser_name, source, idx) triples prepare collected
\* for this parser and the source of the id
DefinedElsewhere_disambiguate(id_sets, mapped_ids) ==
    {id_set \in id_sets : \E idx \in id_set : idx \in mapped_ids}

\* the representation keyed by synonym with the sets of every id of the
\* synonym database, not of the id sets given
build_id_set_representation_of_all_ids(id_sets, syns_for_id) ==
    LET syns == UNION {syns_for_id[idx] : idx \in UNION id_sets}
    IN [syn \in syns |-> {{idx} : idx \in {i \in DOMAIN syns_for_id : syn \in syns_for_id[i]}}]

\* TfIdfDisambiguationStrategy.build_id_set_representation; syns_for_id is
\* synonym_db.get_syns_for_id with the relevant aggregation strategies
build_id_set_representation(id_sets, syns_for_id) ==
    LET syns == UNION {syns_for_id[idx] : idx \in UNION id_sets}
    IN [syn \in syns |->
           {id_set \in id_sets : \E idx \in id_set : syn \in syns_for_id[idx]}]

\* TfIdfDisambiguationStrategy.disambiguate, the loop over the (best_syn,
\* score) pairs the scorer yields: ranked is their order, confident the
\* synonyms with score >= context_threshold
RECURSIVE first_confident_id_sets(_, _, _, _)
first_confident_id_sets(id_set_representation, ranked, confident, k) ==
    IF k > Len(ranked) THEN {}
    ELSE IF /\ ranked[k] \in confident
            /\ Cardinality(id_set_representation[ranked[k]]) = 1
    THEN id_set_representation[ranked[k]]
    ELSE first_confident_id_sets(id_set_representation, ranked, confident, k + 1)

\* the synonyms of the synonym database and what it can hold for the ids
TfIdfSyns == {"s1", "s2"}
SynsForId == [MapIds -> {{}} \cup {{syn} : syn \in TfIdfSyns}]
Rankings(syns) == UNION {Perms(sub) : sub \in SUBSET syns}

\* TfIdfDisambiguationStrategy.disambiguate: every outcome over what the
\* scorer manager, the prepared representations, the synonym database and
\* the scorer can hold; parser_name_to_doc_representation[parser_name] raises
\* KeyError when prepare stored nothing for the parser
TfIdf_disambiguate(id_sets) ==
    {[raised |-> FALSE, output |-> {}], [raised |-> TRUE, output |-> {}]}
    \cup
    UNION {LET id_set_representation == build_id_set_representation(id_sets, syns_for_id)
           IN IF DOMAIN id_set_representation = {}
              THEN {[raised |-> FALSE, output |-> {}]}
              ELSE {[raised |-> FALSE,
                     output |-> first_confident_id_sets(id_set_representation, ranked,
                                                        confident, 1)]
                    : ranked \in Rankings(DOMAIN id_set_representation),
                      confident \in SUBSET DOMAIN id_set_representation}
           : syns_for_id \in SynsForId}

\* DisambiguationStrategy.__call__ of a provided strategy: every outcome over
\* what the document and the databases can hold
provided_strategy_call(strategy, id_sets) ==
    CASE strategy = "DefinedElsewhereInDocumentDisambiguationStrategy" ->
            {[raised |-> FALSE, output |-> DefinedElsewhere_disambiguate(id_sets, mapped_ids)]
             : mapped_ids \in SUBSET MapIds}
      [] strategy = "TfIdfDisambiguationStrategy" -> TfIdf_disambiguate(id_sets)
      [] strategy = "AnnotationLevelDisambiguationStrategy" ->
            {IF annotation_level_raises(id_sets, metadata)
             THEN [raised |-> TRUE, output |-> {}]
             ELSE [raised |-> FALSE, output |-> AnnotationLevel_disambiguate(id_sets, metadata)]
             : metadata \in [MapIds -> {{}, {1}, {2}}]}

\* ----------------------------------------------- SymbolMatchMappingStrategy
\* tok in shortest: tok is a substring of shortest (the empty token always is)
is_in(tok, shortest) ==
    \E i \in 0..(Len(shortest) - Len(tok)) : SubSeq(shortest, i + 1, i + Len(tok)) = tok

\* shortest.replace(tok, "", 1): the first occurrence of tok is cut out
replace_first(shortest, tok) ==
    LET i == CHOOSE i \in 0..(Len(shortest) - Len(tok)) :
                /\ SubSeq(shortest, i + 1, i + Len(tok)) = tok
                /\ \A j \in 0..(i - 1) : SubSeq(shortest, j + 1, j + Len(tok)) # tok
    IN SubSeq(shortest, 1, i) \o SubSeq(shortest, i + Len(tok) + 1, Len(shortest))

\* shortest.strip() == ""
strip_is_empty(shortest) == \A k \in 1..Len(shortest) : shortest[k] = " "

\* SymbolMatchMappingStrategy.match_symbols: the loop over longest from its
\* k-th token
RECURSIVE consume_tokens(_, _, _)
consume_tokens(longest, k, shortest) ==
    IF k > Len(longest) THEN strip_is_empty(shortest)
    ELSE IF ~is_in(longest[k], shortest) THEN FALSE
    ELSE consume_tokens(longest, k + 1, replace_first(shortest, longest[k]))

match_symbols(s1, s2) ==
    LET reference_term_tokens == split(s1)
        query_term_tokens == split(s2)
    IN IF Len(reference_term_tokens) > Len(query_term_tokens)
       THEN consume_tokens(reference_term_tokens, 1, s2)
       ELSE consume_tokens(query_term_tokens, 1, s1)

\* SymbolMatchMappingStrategy.filter_terms
SymbolMatch_filter_terms(ent_match_norm, terms) ==
    {term \in terms : match_symbols(ent_match_norm, term.term_norm)}


\* ------------------------------------------------------------------ state
VARIABLES
    terms_by_term_norm,  \* CurationProcessor._terms_by_term_norm
    terms_by_id,         \* CurationProcessor._terms_by_id
    curations,           \* CurationProcessor.curations
    curations_by_id,     \* CurationProcessor._curations_by_id
    global_ids,          \* the ids of the DROP_IDS_FROM_PARSER action, in loop order
    gpos,                \* position in global_ids of the id being dropped
    pc,                  \* position in export_ner_curations_and_final_terms
    todo,                \* safe curations not yet processed
    conflicts,           \* conflict sets found by analyse_conflicts_in_curations
    curation_for_ner,    \* the NER list built by _process_curations
    last,                \* the last operation run, its arguments and result
    nops,                \* operations run so far
    mapping,             \* one call of a MappingStrategy: its arguments and locals
    grouping,            \* one call of OntologyParser.score_and_group_ids
    filtering,           \* one call of a filter_terms override
    tfidf,               \* documents and TfIdfDisambiguationStrategy instances
    batch,               \* one call of a step's _run
    disambiguating,      \* one call of a disambiguate override
    rule_filter          \* one call of RulesBasedEntityClassDisambiguationFilterStep

vars == <<terms_by_term_norm, terms_by_id, curations, curations_by_id, global_ids,
          gpos, pc, todo, conflicts, curation_for_ner, last, nops, mapping, grouping,
          filtering, tfidf, batch, disambiguating, rule_filter>>

DB == MkDb(terms_by_term_norm, terms_by_id)

NoOp == [op |-> "none", idx |-> NoneVal, term_norm |-> NoneVal, ids |-> NoneIdSets,
         syn |-> NoneVal, curation |-> {}, result |-> "none", terms_modified |-> 0,
         terms_dropped |-> 0, missed |-> FALSE]

\* no MappingStrategy has been called
NoMapping == [terms |-> {}, confidence |-> NoneStr, disambiguation_strategies |-> {},
              filtered_terms |-> {}, pos |-> 1, consulted |-> <<>>, id_sets |-> {},
              successful_disambiguation_strategy |-> NoneStr, mappings |-> <<>>]

\* score_and_group_ids has not been called
NoGrouping == [ids |-> {}, is_symbolic |-> FALSE, string_scorer |-> {},
               synonym_merge_threshold |-> 0, called |-> FALSE,
               associated_id_sets |-> {}, aggregated_by |-> NoneStr, steps |-> <<>>]

\* no filter_terms override has been called
NoFiltering ==
    [strategy |-> NoneStr, terms |-> {}, ent_match_norm |-> <<>>,
     search_threshold |-> 0, symbolic_only |-> FALSE, differential |-> 0,
     min_term_norm_len_to_consider |-> 0, called |-> FALSE, result |-> {},
     visited |-> <<>>]

\* no TfIdfDisambiguationStrategy has been made and no document has been seen
NoTfIdf == [docs |-> <<>>, reps |-> <<>>, prepare_cache |-> {}, build_cache |-> EmptyDict,
            read |-> {}]

\* no _run has been called
NoBatch ==
    [step |-> NoneStr, docs |-> {}, ents_by_match_and_class |-> <<>>, outcomes |-> <<>>,
     sections |-> <<>>, raise_at |-> 0, called |-> FALSE, affected |-> {},
     propagated |-> FALSE, marked |-> {}, failed_docs |-> <<>>, returned_docs |-> {}]

\* RulesBasedEntityClassDisambiguationFilterStep has not been called
NoRuleFilter ==
    [class_matchers |-> <<>>, mention_matchers |-> <<>>, entities |-> <<>>,
     called |-> FALSE, raised |-> FALSE, kept |-> {}]

\* no disambiguate override has been called
NoDisambiguating ==
    [strategy |-> NoneStr, id_sets |-> {}, metadata |-> <<>>, called |-> FALSE,
     result |-> {}]

\* CurationProcessor.__init__, the term loop: the terms of a parser, one per
\* term_norm, loaded with _update_term_lookups(term, False)
RECURSIVE load_terms(_, _, _)
load_terms(db, by_norm, normseq) ==
    IF normseq = <<>> THEN db
    ELSE load_terms(update_term_lookups(db, by_norm[Head(normseq)], FALSE).db,
                    by_norm, Tail(normseq))

\* the term sets ingestion can hand to the constructor
IngestedTermSets ==
    UNION {{[n \in D |-> IngestedTerm(n, f[n])] : f \in [D -> AssociatedIdSets]}
           : D \in (SUBSET Norms) \ {{}}}

ConstructedDb(by_norm) == load_terms(MkDb(EmptyDict, EmptyDict), by_norm,
                                     SortedSeq(DOMAIN by_norm))

\* ------------------------------------------- the term operations, one by one
\* (specification SpecOps: the operations export_ner_curations_and_final_terms
\* runs on the indices, global id drops first, then the curation operations)
InitOps ==
    /\ \E by_norm \in IngestedTermSets :
          /\ terms_by_term_norm = ConstructedDb(by_norm).terms_by_term_norm
          /\ terms_by_id = ConstructedDb(by_norm).terms_by_id
    /\ curations = {}
    /\ curations_by_id = EmptyDict
    /\ global_ids = <<>>
    /\ gpos = 1
    /\ pc = "global"
    /\ todo = {}
    /\ conflicts = {}
    /\ curation_for_ner = <<>>
    /\ last = NoOp
    /\ nops = 0
    /\ mapping = NoMapping
    /\ grouping = NoGrouping
    /\ filtering = NoFiltering
    /\ tfidf = NoTfIdf
    /\ batch = NoBatch
    /\ disambiguating = NoDisambiguating
    /\ rule_filter = NoRuleFilter

UnchangedCurationState ==
    UNCHANGED <<curations, curations_by_id, global_ids, gpos, todo, conflicts,
                curation_for_ner, mapping, grouping, filtering, tfidf, batch, disambiguating, rule_filter>>

AfterOp(r, next_pc) ==
    /\ terms_by_term_norm' = r.db.terms_by_term_norm
    /\ terms_by_id' = r.db.terms_by_id
    /\ pc' = IF IsException(r.result) THEN "raised" ELSE next_pc
    /\ nops' = nops + 1
    /\ UnchangedCurationState

OpDropIdFromAllSynonymTerms ==
    /\ pc = "global"
    /\ nops < MaxOps
    /\ \E id_to_drop \in Ids :
       \E r \in drop_id_from_all_synonym_terms(DB, id_to_drop) :
          /\ AfterOp(r, "global")
          /\ last' = [NoOp EXCEPT !.op = "drop_id_from_all_synonym_terms",
                                  !.idx = id_to_drop, !.result = r.result,
                                  !.terms_modified = r.terms_modified,
                                  !.terms_dropped = r.terms_dropped,
                                  !.missed = r.missed]

OpDropSynonymTerm ==
    /\ pc \in {"global", "curation"}
    /\ nops < MaxOps
    /\ \E synonym \in Norms :
          LET r == drop_synonym_term(DB, synonym)
          IN /\ AfterOp([db |-> r.db, result |-> "OK"], "curation")
             /\ last' = [NoOp EXCEPT !.op = "drop_synonym_term", !.term_norm = synonym,
                                     !.result = IF r.found THEN "OK" ELSE "NotFound",
                                     !.missed = r.missed]

OpDropIdSetFromSynonymTerm ==
    /\ pc \in {"global", "curation"}
    /\ nops < MaxOps
    /\ \E term_norm \in Norms :
       \E equivalent_id_sets_to_drop \in AssociatedIdSets :
       \E r \in drop_id_set_from_synonym_term(DB, equivalent_id_sets_to_drop, term_norm) :
          /\ AfterOp(r, "curation")
          /\ last' = [NoOp EXCEPT !.op = "drop_id_set_from_synonym_term",
                                  !.term_norm = term_norm,
                                  !.ids = equivalent_id_sets_to_drop,
                                  !.result = r.result, !.missed = r.missed]

OpAttemptToAdd ==
    /\ pc \in {"global", "curation"}
    /\ nops < MaxOps
    /\ \E curated_synonym \in Syns :
       \E curation_associated_id_set \in AssociatedIdSets :
       \E r \in attempt_to_add_database_entry_for_curation(
                    DB, normalize(curated_synonym), curation_associated_id_set,
                    curated_synonym) :
          /\ AfterOp(r, "curation")
          /\ last' = [NoOp EXCEPT !.op = "attempt_to_add_database_entry_for_curation",
                                  !.term_norm = normalize(curated_synonym),
                                  !.syn = curated_synonym,
                                  !.ids = curation_associated_id_set,
                                  !.result = r.result]

NextOps ==
    \/ OpDropIdFromAllSynonymTerms
    \/ OpDropSynonymTerm
    \/ OpDropIdSetFromSynonymTerm
    \/ OpAttemptToAdd

SpecOps == InitOps /\ [][NextOps]_vars

\* --------------------------------- export_ner_curations_and_final_terms
\* (specification Spec: the constructor inputs are chosen, then the export
\* runs: per global id the term drop and the curation rewrite, then conflict
\* analysis, then the safe curations one by one)

\* the SynonymTermActions of the input curations: a target is given exactly
\* for the behaviours that use one
ActionsWithoutIds ==
    {SynonymTermAction(b, NoneIdSets) : b \in {"IGNORE", "DROP_SYNONYM_TERM_FOR_LINKING"}}

ActionsWithIds ==
    {SynonymTermAction(b, a) :
        b \in {"DROP_ID_SET_FROM_SYNONYM_TERM", "ADD_FOR_LINKING_ONLY",
               "ADD_FOR_NER_AND_LINKING"},
        a \in AssociatedIdSets}

\* the action tuples of a curation: one action, or (up to MaxActions) drop
\* actions followed by the action that adds the replacement
DropActions ==
    {a \in ActionsWithoutIds \cup ActionsWithIds :
        a.behaviour \in {"DROP_SYNONYM_TERM_FOR_LINKING", "DROP_ID_SET_FROM_SYNONYM_TERM"}}

ReplacingActions ==
    {a \in ActionsWithIds : a.behaviour = "ADD_FOR_NER_AND_LINKING"}

ActionTuples ==
    [1..1 -> ActionsWithoutIds \cup ActionsWithIds]
    \cup
    UNION {{drops \o <<add>> : drops \in [1..k -> DropActions], add \in ReplacingActions}
           : k \in 1..(MaxActions - 1)}

\* curations written by a curator, and curations generated from a source term
InputCurations ==
    {Curation(syn, NoneVal, actions) : syn \in Syns, actions \in ActionTuples}
    \cup
    {Curation(p[1], p[2], <<SynonymTermAction("INHERIT_FROM_SOURCE_TERM", NoneIdSets)>>) :
        p \in {q \in Syns \X Syns : q[1] # q[2]}}

RECURSIVE SubsetsUpTo(_, _)
SubsetsUpTo(U, k) ==
    IF k = 0 THEN {{}}
    ELSE LET smaller == SubsetsUpTo(U, k - 1)
         IN smaller \cup {sub \cup {x} : sub \in smaller, x \in U}

RECURSIVE TotalActions(_)
TotalActions(cs) ==
    IF cs = {} THEN 0
    ELSE LET c == CHOOSE x \in cs : TRUE
         IN Len(c.actions) + TotalActions(cs \ {c})

\* the curation lists handed to the constructor
InputCurationSets ==
    {cs \in SubsetsUpTo(InputCurations, MaxCurations) : TotalActions(cs) <= MaxTotalActions}

\* the orders in which the ids of one DROP_IDS_FROM_PARSER action are dropped
GlobalIdOrders == UNION {Perms(D) : D \in SUBSET Ids}

Init ==
    /\ \E by_norm \in IngestedTermSets :
          /\ terms_by_term_norm = ConstructedDb(by_norm).terms_by_term_norm
          /\ terms_by_id = ConstructedDb(by_norm).terms_by_id
    /\ curations \in InputCurationSets
    /\ curations_by_id = index_curations(curations)
    /\ global_ids \in GlobalIdOrders
    /\ gpos = 1
    /\ pc = "global"
    /\ todo = {}
    /\ conflicts = {}
    /\ curation_for_ner = <<>>
    /\ last = NoOp
    /\ nops = 0
    /\ mapping = NoMapping
    /\ grouping = NoGrouping
    /\ filtering = NoFiltering
    /\ tfidf = NoTfIdf
    /\ batch = NoBatch
    /\ disambiguating = NoDisambiguating
    /\ rule_filter = NoRuleFilter

\* _process_global_actions, first half of one loop iteration:
\* _drop_id_from_all_synonym_terms(idx)
GlobalDropIdFromTerms ==
    /\ pc = "global"
    /\ gpos <= Len(global_ids)
    /\ \E r \in drop_id_from_all_synonym_terms(DB, global_ids[gpos]) :
          /\ terms_by_term_norm' = r.db.terms_by_term_norm
          /\ terms_by_id' = r.db.terms_by_id
          /\ pc' = IF IsException(r.result) THEN "raised" ELSE "global_curation"
          /\ last' = [NoOp EXCEPT !.op = "drop_id_from_all_synonym_terms",
                                  !.idx = global_ids[gpos], !.result = r.result,
                                  !.terms_modified = r.terms_modified,
                                  !.terms_dropped = r.terms_dropped,
                                  !.missed = r.missed]
    /\ UNCHANGED <<curations, curations_by_id, global_ids, gpos, todo, conflicts,
                   curation_for_ner, nops, mapping, grouping, filtering, tfidf, batch, disambiguating, rule_filter>>

\* _process_global_actions, second half of one loop iteration:
\* _drop_id_from_curation(idx)
GlobalDropIdFromCuration ==
    /\ pc = "global_curation"
    /\ \E r \in drop_id_from_curation(curations, curations_by_id, global_ids[gpos]) :
          /\ curations' = r.curations
          /\ curations_by_id' = r.curations_by_id
          /\ pc' = IF IsException(r.result) THEN "raised" ELSE "global"
          /\ last' = [NoOp EXCEPT !.op = "drop_id_from_curation",
                                  !.idx = global_ids[gpos], !.result = r.result]
    /\ gpos' = gpos + 1
    /\ UNCHANGED <<terms_by_term_norm, terms_by_id, global_ids, todo, conflicts,
                   curation_for_ner, nops, mapping, grouping, filtering, tfidf, batch, disambiguating, rule_filter>>

\* the export with the bug of analysing conflicts without waiting for the
\* global actions
AnalyseConflictsBeforeGlobalActions ==
    /\ pc = "global"
    /\ todo' = analyse_conflicts_in_curations(curations).safe
    /\ conflicts' = analyse_conflicts_in_curations(curations).conflicts
    /\ pc' = "curations"
    /\ last' = [NoOp EXCEPT !.op = "analyse_conflicts_in_curations", !.result = "OK"]
    /\ UNCHANGED <<terms_by_term_norm, terms_by_id, curations, curations_by_id,
                   global_ids, gpos, curation_for_ner, nops, mapping, grouping, filtering, tfidf, batch, disambiguating, rule_filter>>

\* _process_curations, up to the loop: analyse_conflicts_in_curations
AnalyseConflicts ==
    /\ pc = "global"
    /\ gpos > Len(global_ids)
    /\ todo' = analyse_conflicts_in_curations(curations).safe
    /\ conflicts' = analyse_conflicts_in_curations(curations).conflicts
    /\ pc' = "curations"
    /\ last' = [NoOp EXCEPT !.op = "analyse_conflicts_in_curations", !.result = "OK"]
    /\ UNCHANGED <<terms_by_term_norm, terms_by_id, curations, curations_by_id,
                   global_ids, gpos, curation_for_ner, nops, mapping, grouping, filtering, tfidf, batch, disambiguating, rule_filter>>

\* the loop order with the sort forgotten: any safe curation can come next
next_in_set_order(remaining) == remaining

\* the curations sorted(safe_curations, key=source_term is not None) can
\* yield next: any without a source_term while there is one, then the others
next_in_sorted_order(remaining) ==
    IF \E c \in remaining : c.source_term = NoneVal
    THEN {c \in remaining : c.source_term = NoneVal}
    ELSE remaining

\* _process_curations, the loop over sorted(safe_curations, ...): the set of
\* outcomes over every order the sort allows and every order in which the
\* terms of an id are visited; an outcome is the pair returned, or the
\* exception raised
RECURSIVE process_curations_from(_, _, _)
process_curations_from(db, remaining, curation_for_ner_so_far) ==
    IF remaining = {}
    THEN {[result |-> "OK",
           final_terms |-> {db.terms_by_term_norm[n] : n \in DOMAIN db.terms_by_term_norm},
           ner_curations |-> curation_for_ner_so_far]}
    ELSE UNION {UNION {IF IsException(r.result)
                       THEN {[result |-> r.result, final_terms |-> {}, ner_curations |-> {}]}
                       ELSE process_curations_from(
                                r.db, remaining \ {curation},
                                IF r.returned THEN curation_for_ner_so_far \cup {curation}
                                ELSE curation_for_ner_so_far)
                       : r \in process_curation(db, curation)}
                : curation \in next_in_sorted_order(remaining)}

\* _process_global_actions from the k-th id on, then _process_curations
RECURSIVE export_from_global_id(_, _, _, _, _)
export_from_global_id(db, cs, by_id, ids, k) ==
    IF k > Len(ids)
    THEN process_curations_from(db, analyse_conflicts_in_curations(cs).safe, {})
    ELSE UNION {IF IsException(rt.result)
                THEN {[result |-> rt.result, final_terms |-> {}, ner_curations |-> {}]}
                ELSE UNION {IF IsException(rc.result)
                            THEN {[result |-> rc.result, final_terms |-> {},
                                   ner_curations |-> {}]}
                            ELSE export_from_global_id(rt.db, rc.curations,
                                                       rc.curations_by_id, ids, k + 1)
                            : rc \in drop_id_from_curation(cs, by_id, ids[k])}
                : rt \in drop_id_from_all_synonym_terms(db, ids[k])}

\* export_ner_curations_and_final_terms: every outcome the iteration orders
\* allow
export_ner_curations_and_final_terms(db, cs, by_id, ids) ==
    export_from_global_id(db, cs, by_id, ids, 1)

\* _process_curations, one loop iteration: _process_curation(curation)
ProcessCuration ==
    /\ pc = "curations"
    /\ \E curation \in next_in_sorted_order(todo) :
       \E r \in process_curation(DB, curation) :
          /\ terms_by_term_norm' = r.db.terms_by_term_norm
          /\ terms_by_id' = r.db.terms_by_id
          /\ todo' = todo \ {curation}
          /\ curation_for_ner' = IF r.returned
                                 THEN Append(curation_for_ner, curation)
                                 ELSE curation_for_ner
          /\ pc' = IF IsException(r.result) THEN "raised" ELSE "curations"
          /\ last' = [NoOp EXCEPT !.op = "process_curation",
                                  !.curation = {curation},
                                  !.syn = curation.curated_synonym,
                                  !.term_norm = term_norm_for_linking(curation),
                                  !.result = r.result]
    /\ UNCHANGED <<curations, curations_by_id, global_ids, gpos, conflicts, nops, mapping, grouping, filtering, tfidf, batch, disambiguating, rule_filter>>

\* export_ner_curations_and_final_terms returns
Return ==
    /\ pc = "curations"
    /\ todo = {}
    /\ pc' = "done"
    /\ last' = [NoOp EXCEPT !.op = "return", !.result = "OK"]
    /\ UNCHANGED <<terms_by_term_norm, terms_by_id, curations, curations_by_id,
                   global_ids, gpos, todo, conflicts, curation_for_ner, nops, mapping, grouping, filtering, tfidf, batch, disambiguating, rule_filter>>

Next ==
    \/ GlobalDropIdFromTerms
    \/ GlobalDropIdFromCuration
    \/ AnalyseConflicts
    \/ ProcessCuration
    \/ Return

Spec == Init /\ [][Next]_vars

\* ------------------------------------------------ MappingStrategy.__call__
\* (specification SpecMap: the strategy is constructed with a confidence and
\* optional disambiguation strategies and called with the candidate terms of
\* one mention; each call of a disambiguation strategy is one step)

\* the candidate terms of a mention: terms of one parser, one per term_norm
CandidateTermSets ==
    {{by_norm[n] : n \in DOMAIN by_norm} : by_norm \in IngestedTermSets}

\* the lists of disambiguation strategies a MappingStrategy can be given
StrategyLists ==
    UNION {[1..k -> DisambiguationStrategyNames] : k \in 0..MaxStrategies}

\* the list configured (disambiguation_strategies is not None)
StrategyList == CHOOSE lst \in mapping.disambiguation_strategies : TRUE

InitMap ==
    /\ terms_by_term_norm = EmptyDict
    /\ terms_by_id = EmptyDict
    /\ curations = {}
    /\ curations_by_id = EmptyDict
    /\ global_ids = <<>>
    /\ gpos = 1
    /\ pc = "filter_terms"
    /\ todo = {}
    /\ conflicts = {}
    /\ curation_for_ner = <<>>
    /\ last = NoOp
    /\ nops = 0
    /\ grouping = NoGrouping
    /\ filtering = NoFiltering
    /\ tfidf = NoTfIdf
    /\ batch = NoBatch
    /\ disambiguating = NoDisambiguating
    /\ rule_filter = NoRuleFilter
    /\ \E terms \in CandidateTermSets :
       \E confidence \in LinkRanks :
       \E disambiguation_strategies \in {{}} \cup {{lst} : lst \in StrategyLists} :
          mapping = [NoMapping EXCEPT
                        !.terms = terms,
                        !.confidence = confidence,
                        !.disambiguation_strategies = disambiguation_strategies]

UnchangedProcessor ==
    UNCHANGED <<terms_by_term_norm, terms_by_id, curations, curations_by_id, global_ids,
                gpos, todo, conflicts, curation_for_ner, last, nops>>

UnchangedMappingState == UNCHANGED <<grouping, filtering, tfidf, batch, disambiguating, rule_filter>>

\* __call__ up to the call of disambiguate_if_required: filter_terms
CallFilterTerms ==
    /\ pc = "filter_terms"
    /\ \E filtered_terms \in filter_terms(mapping.terms) :
          mapping' = [mapping EXCEPT !.filtered_terms = filtered_terms]
    /\ pc' = "disambiguate"
    /\ UnchangedProcessor
    /\ UnchangedMappingState

\* disambiguate_if_required, one iteration of the strategy loop
ConsultStrategy ==
    /\ pc = "disambiguate"
    /\ disambiguation_required(mapping.filtered_terms)
    /\ mapping.disambiguation_strategies # {}
    /\ mapping.pos <= Len(StrategyList)
    /\ LET strategy == StrategyList[mapping.pos]
       IN \E filtered_id_sets \in strategy_call(all_id_sets(mapping.filtered_terms)) :
             LET called == [mapping EXCEPT
                               !.consulted = Append(@, [strategy |-> strategy,
                                                        output |-> filtered_id_sets])]
             IN IF strategy_succeeded(filtered_id_sets)
                THEN /\ mapping' = [called EXCEPT
                                       !.id_sets = filtered_id_sets,
                                       !.successful_disambiguation_strategy = strategy]
                     /\ pc' = "create_mappings"
                ELSE /\ mapping' = [called EXCEPT !.pos = @ + 1]
                     /\ pc' = "disambiguate"
    /\ UnchangedProcessor
    /\ UnchangedMappingState

\* disambiguate_if_required, the two else branches: no disambiguation is
\* required or configured, or the strategy loop ran to its end
ReturnAllIdSets ==
    /\ pc = "disambiguate"
    /\ \/ ~(/\ disambiguation_required(mapping.filtered_terms)
             /\ mapping.disambiguation_strategies # {})
       \/ /\ mapping.disambiguation_strategies # {}
          /\ mapping.pos > Len(StrategyList)
    /\ mapping' = [mapping EXCEPT
                      !.id_sets = all_id_sets(mapping.filtered_terms),
                      !.successful_disambiguation_strategy = NoneStr]
    /\ pc' = "create_mappings"
    /\ UnchangedProcessor
    /\ UnchangedMappingState

\* __call__ after disambiguate_if_required: the Mappings yielded
CreateMappings ==
    /\ pc = "create_mappings"
    /\ \E mappings \in create_mapping_from_id_sets(
                            mapping.id_sets, "MappingStrategy",
                            mapping.successful_disambiguation_strategy,
                            mapping_confidence(mapping.id_sets, mapping.confidence)) :
          mapping' = [mapping EXCEPT !.mappings = mappings]
    /\ pc' = "mapped"
    /\ UnchangedProcessor
    /\ UnchangedMappingState

NextMap ==
    \/ CallFilterTerms
    \/ ConsultStrategy
    \/ ReturnAllIdSets
    \/ CreateMappings

SpecMap == InitMap /\ [][NextMap]_vars

\* ------------------------------------- OntologyParser.score_and_group_ids
\* (specification SpecGroup: the parser is configured with or without a
\* string scorer and score_and_group_ids is called for the ids of one
\* normalised synonym)
InitGroup ==
    /\ terms_by_term_norm = EmptyDict
    /\ terms_by_id = EmptyDict
    /\ curations = {}
    /\ curations_by_id = EmptyDict
    /\ global_ids = <<>>
    /\ gpos = 1
    /\ pc = "score_and_group_ids"
    /\ todo = {}
    /\ conflicts = {}
    /\ curation_for_ner = <<>>
    /\ last = NoOp
    /\ nops = 0
    /\ mapping = NoMapping
    /\ filtering = NoFiltering
    /\ tfidf = NoTfIdf
    /\ batch = NoBatch
    /\ disambiguating = NoDisambiguating
    /\ rule_filter = NoRuleFilter
    /\ \E ids \in (SUBSET GroupIds) \ {{}} :
       \E is_symbolic \in BOOLEAN :
       \E string_scorer \in {{}} \cup {{f} : f \in StringScorers} :
       \E threshold \in Thresholds :
          grouping = [NoGrouping EXCEPT
                         !.ids = ids, !.is_symbolic = is_symbolic,
                         !.string_scorer = string_scorer,
                         !.synonym_merge_threshold = threshold]

\* resolve_synonyms calls score_and_group_ids
ScoreAndGroupIds ==
    /\ pc = "score_and_group_ids"
    /\ \E r \in score_and_group_ids(grouping.ids, grouping.is_symbolic,
                                     grouping.string_scorer,
                                     grouping.synonym_merge_threshold) :
          grouping' = [grouping EXCEPT
                          !.called = TRUE,
                          !.associated_id_sets = r.associated_id_sets,
                          !.aggregated_by = r.aggregated_by,
                          !.steps = r.steps]
    /\ pc' = "grouped"
    /\ UnchangedProcessor
    /\ UNCHANGED <<mapping, filtering, tfidf, batch, disambiguating, rule_filter>>

NextGroup == ScoreAndGroupIds

SpecGroup == InitGroup /\ [][NextGroup]_vars

\* (specification SpecGroupAll: the parser is an OntologyParser with the
\* default algorithm or one of the parsers that override it)
InitGroupAll ==
    \/ InitGroup
    \/ /\ terms_by_term_norm = EmptyDict
       /\ terms_by_id = EmptyDict
       /\ curations = {}
       /\ curations_by_id = EmptyDict
       /\ global_ids = <<>>
       /\ gpos = 1
       /\ pc = "custom_score_and_group_ids"
       /\ todo = {}
       /\ conflicts = {}
       /\ curation_for_ner = <<>>
       /\ last = NoOp
       /\ nops = 0
       /\ mapping = NoMapping
       /\ filtering = NoFiltering
       /\ tfidf = NoTfIdf
       /\ batch = NoBatch
       /\ disambiguating = NoDisambiguating
       /\ rule_filter = NoRuleFilter
       /\ \E ids \in (SUBSET GroupIds) \ {{}} :
          \E is_symbolic \in BOOLEAN :
             grouping = [NoGrouping EXCEPT !.ids = ids, !.is_symbolic = is_symbolic]

\* resolve_synonyms calls the override of score_and_group_ids
CustomScoreAndGroupIds ==
    /\ pc = "custom_score_and_group_ids"
    /\ LET r == custom_score_and_group_ids(grouping.ids, grouping.is_symbolic)
       IN grouping' = [grouping EXCEPT
                          !.called = TRUE,
                          !.associated_id_sets = r.associated_id_sets,
                          !.aggregated_by = r.aggregated_by,
                          !.steps = r.steps]
    /\ pc' = "grouped"
    /\ UnchangedProcessor
    /\ UNCHANGED <<mapping, filtering, tfidf, batch, disambiguating, rule_filter>>

NextGroupAll == ScoreAndGroupIds \/ CustomScoreAndGroupIds

SpecGroupAll == InitGroupAll /\ [][NextGroupAll]_vars

\* ------------------------------------------ the filter_terms overrides
\* (specification SpecFilter: a StrongMatchMappingStrategy or a
\* TermNormIsSubStringMappingStrategy is configured and its filter_terms is
\* called with the candidate terms of a mention)
MaxCandidates == 3
MaxTokens == 3

\* the term_norm of the candidate terms, and a word that is no term_norm
TermNorms ==
    {<<"a", "b">>, <<"x", "y", "z">>, <<"a", "b", "c", "d">>, <<"e", "f", "g", "h">>}
Words == TermNorms \cup {<<"g", "e", "n", "e">>}

\* " ".join(words)
RECURSIVE join(_)
join(words) ==
    IF Len(words) = 0 THEN <<>>
    ELSE IF Len(words) = 1 THEN words[1]
    ELSE words[1] \o <<" ">> \o join(Tail(words))

\* the normalised mentions: up to MaxTokens words with a space between
EntMatchNorms ==
    {join(CHOOSE words \in Perms(ws) : TRUE) : ws \in SubsetsUpTo(Words, MaxTokens) \ {{}}}

SearchScores == {70, 80, 94, 95}
SearchThresholds == {80, 95}
Differentials == {0, 2}
MinTermNormLens == {2, 3}

\* the candidate terms of a mention: at most MaxCandidates, one per term_norm
CandidateTerms ==
    {SynonymTermWithMetrics(norm, symbolic, score) :
        norm \in TermNorms, symbolic \in BOOLEAN,
        score \in {{}} \cup {{sc} : sc \in SearchScores}}

FilterCandidateSets ==
    {terms \in SubsetsUpTo(CandidateTerms, MaxCandidates) :
        \A t1, t2 \in terms : t1.term_norm = t2.term_norm => t1 = t2}

InitFilter ==
    /\ terms_by_term_norm = EmptyDict
    /\ terms_by_id = EmptyDict
    /\ curations = {}
    /\ curations_by_id = EmptyDict
    /\ global_ids = <<>>
    /\ gpos = 1
    /\ pc = "filter_terms"
    /\ todo = {}
    /\ conflicts = {}
    /\ curation_for_ner = <<>>
    /\ last = NoOp
    /\ nops = 0
    /\ mapping = NoMapping
    /\ grouping = NoGrouping
    /\ tfidf = NoTfIdf
    /\ batch = NoBatch
    /\ disambiguating = NoDisambiguating
    /\ rule_filter = NoRuleFilter
    /\ \E terms \in FilterCandidateSets :
          \/ \E search_threshold \in SearchThresholds :
             \E symbolic_only \in BOOLEAN :
             \E differential \in Differentials :
                filtering = [NoFiltering EXCEPT
                                !.strategy = "StrongMatchMappingStrategy",
                                !.terms = terms,
                                !.search_threshold = search_threshold,
                                !.symbolic_only = symbolic_only,
                                !.differential = differential]
          \/ \E ent_match_norm \in EntMatchNorms :
             \E min_len \in MinTermNormLens :
                filtering = [NoFiltering EXCEPT
                                !.strategy = "TermNormIsSubStringMappingStrategy",
                                !.terms = terms,
                                !.ent_match_norm = ent_match_norm,
                                !.min_term_norm_len_to_consider = min_len]

\* StrongMatchMappingStrategy.filter_terms is called
StrongMatchFilterTerms ==
    /\ pc = "filter_terms"
    /\ filtering.strategy = "StrongMatchMappingStrategy"
    /\ filtering' = [filtering EXCEPT
                        !.called = TRUE,
                        !.result = StrongMatch_filter_terms(filtering.terms,
                                       filtering.search_threshold,
                                       filtering.symbolic_only, filtering.differential)]
    /\ pc' = "filtered"
    /\ UnchangedProcessor
    /\ UNCHANGED <<mapping, grouping, tfidf, batch, disambiguating, rule_filter>>

\* TermNormIsSubStringMappingStrategy.filter_terms is called
TermNormIsSubStringFilterTerms ==
    /\ pc = "filter_terms"
    /\ filtering.strategy = "TermNormIsSubStringMappingStrategy"
    /\ filtering' = [filtering EXCEPT
                        !.called = TRUE,
                        !.result = TermNormIsSubString_filter_terms(
                                       filtering.ent_match_norm, filtering.terms,
                                       filtering.min_term_norm_len_to_consider)]
    /\ pc' = "filtered"
    /\ UnchangedProcessor
    /\ UNCHANGED <<mapping, grouping, tfidf, batch, disambiguating, rule_filter>>

NextFilter == StrongMatchFilterTerms \/ TermNormIsSubStringFilterTerms

SpecFilter == InitFilter /\ [][NextFilter]_vars

\* ---------------------------------------------------------------------------
\* SymbolMatchMappingStrategy.filter_terms, called with a normalised mention
\* and candidate terms whose term_norm are symbols
MaxSymbolLen == 4
SymbolChars == {"a", "b", " "}

\* the normalised strings of at most MaxSymbolLen characters: tokens of
\* letters with one space between them
SymbolStrings ==
    {string \in UNION {[1..n -> SymbolChars] : n \in 1..MaxSymbolLen} :
        /\ string[1] # " "
        /\ string[Len(string)] # " "
        /\ \A k \in 1..(Len(string) - 1) : ~(string[k] = " " /\ string[k + 1] = " ")}

SymbolTermSets ==
    {{SynonymTermWithMetrics(norm, TRUE, {})} : norm \in SymbolStrings}

InitSymbols ==
    /\ terms_by_term_norm = EmptyDict
    /\ terms_by_id = EmptyDict
    /\ curations = {}
    /\ curations_by_id = EmptyDict
    /\ global_ids = <<>>
    /\ gpos = 1
    /\ pc = "filter_terms"
    /\ todo = {}
    /\ conflicts = {}
    /\ curation_for_ner = <<>>
    /\ last = NoOp
    /\ nops = 0
    /\ mapping = NoMapping
    /\ grouping = NoGrouping
    /\ tfidf = NoTfIdf
    /\ batch = NoBatch
    /\ disambiguating = NoDisambiguating
    /\ rule_filter = NoRuleFilter
    /\ \E terms \in SymbolTermSets :
       \E ent_match_norm \in SymbolStrings :
          filtering = [NoFiltering EXCEPT
                          !.strategy = "SymbolMatchMappingStrategy",
                          !.terms = terms,
                          !.ent_match_norm = ent_match_norm]

\* SymbolMatchMappingStrategy.filter_terms is called
SymbolMatchFilterTerms ==
    /\ pc = "filter_terms"
    /\ filtering.strategy = "SymbolMatchMappingStrategy"
    /\ filtering' = [filtering EXCEPT
                        !.called = TRUE,
                        !.result = SymbolMatch_filter_terms(filtering.ent_match_norm,
                                                            filtering.terms)]
    /\ pc' = "filtered"
    /\ UnchangedProcessor
    /\ UNCHANGED <<mapping, grouping, tfidf, batch, disambiguating, rule_filter>>

NextSymbols == SymbolMatchFilterTerms

SpecSymbols == InitSymbols /\ [][NextSymbols]_vars

\* ------------------------ _attempt_to_add_database_entry_for_curation
\* (specification SpecAdd: a parser whose strings have one normal form more
\* than SpecOps has, so that two ingested terms leave a term_norm free for a
\* curated synonym; the adds of _process_curation are applied to the indices)
AddNorms == 1..(NumNorms + 1)
AddSyns == 1..(NumNorms + 2)
add_normalize(syn) == normalize_to(syn, NumNorms + 1)

AddIngestedTermSets ==
    UNION {{[n \in D |-> IngestedTerm(n, f[n])] : f \in [D -> AssociatedIdSets]}
           : D \in (SUBSET AddNorms) \ {{}}}

InitAdd ==
    /\ \E by_norm \in AddIngestedTermSets :
          /\ terms_by_term_norm = ConstructedDb(by_norm).terms_by_term_norm
          /\ terms_by_id = ConstructedDb(by_norm).terms_by_id
    /\ curations = {}
    /\ curations_by_id = EmptyDict
    /\ global_ids = <<>>
    /\ gpos = 1
    /\ pc = "add"
    /\ todo = {}
    /\ conflicts = {}
    /\ curation_for_ner = <<>>
    /\ last = NoOp
    /\ nops = 0
    /\ mapping = NoMapping
    /\ grouping = NoGrouping
    /\ filtering = NoFiltering
    /\ tfidf = NoTfIdf
    /\ batch = NoBatch
    /\ disambiguating = NoDisambiguating
    /\ rule_filter = NoRuleFilter

\* _process_curation, an ADD_FOR_* action: the add for the curation's
\* term_norm_for_linking and the action's associated_id_sets
AddCuratedTerm ==
    /\ pc = "add"
    /\ nops < MaxOps
    /\ \E curated_synonym \in AddSyns :
       \E curation_associated_id_set \in AssociatedIdSets :
       \E r \in attempt_to_add_database_entry_for_curation(
                    DB, add_normalize(curated_synonym), curation_associated_id_set,
                    curated_synonym) :
          /\ AfterOp(r, "add")
          /\ last' = [NoOp EXCEPT !.op = "attempt_to_add_database_entry_for_curation",
                                  !.term_norm = add_normalize(curated_synonym),
                                  !.syn = curated_synonym,
                                  !.ids = curation_associated_id_set,
                                  !.result = r.result]

NextAdd == AddCuratedTerm

SpecAdd == InitAdd /\ [][NextAdd]_vars

\* ---------------------------------------------- TfIdfDisambiguationStrategy
\* (specification SpecTfIdf: the strategy instances are called on the
\* documents of a run in any order, and between calls the steps of the
\* pipeline add entities to a document or remove them)
InitTfIdf ==
    /\ terms_by_term_norm = EmptyDict
    /\ terms_by_id = EmptyDict
    /\ curations = {}
    /\ curations_by_id = EmptyDict
    /\ global_ids = <<>>
    /\ gpos = 1
    /\ pc = "tfidf"
    /\ todo = {}
    /\ conflicts = {}
    /\ curation_for_ner = <<>>
    /\ last = NoOp
    /\ nops = 0
    /\ mapping = NoMapping
    /\ grouping = NoGrouping
    /\ filtering = NoFiltering
    /\ tfidf = [NoTfIdf EXCEPT !.docs = [doc \in Docs |-> 0],
                               !.reps = [strategy \in TfIdfStrategies |-> {}]]
    /\ batch = NoBatch
    /\ disambiguating = NoDisambiguating
    /\ rule_filter = NoRuleFilter

UnchangedByTfIdf ==
    /\ UnchangedProcessor
    /\ UNCHANGED <<pc, mapping, grouping, filtering, batch, disambiguating, rule_filter>>

\* a strategy instance is called for a document
TfIdfCall ==
    /\ \E strategy \in TfIdfStrategies : \E doc \in Docs :
          tfidf' = disambiguation_strategy_call(tfidf, strategy, doc)
    /\ UnchangedByTfIdf

\* a step adds entities to a document or removes them
DocumentEntitiesChange ==
    /\ \E doc \in Docs :
          /\ tfidf.docs[doc] < MaxDocChanges
          /\ tfidf' = [tfidf EXCEPT !.docs[doc] = @ + 1]
    /\ UnchangedByTfIdf

NextTfIdf == TfIdfCall \/ DocumentEntitiesChange

SpecTfIdf == InitTfIdf /\ [][NextTfIdf]_vars

\* ------------------------------------------------------- the steps' _run
\* (specification SpecBatch: a step is given a batch of documents and its
\* _run is called; the calls it makes into the indices, the lookup cache or
\* the spaCy pipeline may raise)
NumBatchDocs == 2
MaxGroups == 2
MaxSections == 2
BatchDocs == 1..NumBatchDocs
GroupOutcomes == {"cached", "searched", "check_raises", "search_raises"}

\* the batches: a non-empty list of documents
Batches == (SUBSET BatchDocs) \ {{}}

\* for the dictionary step: the (match, class) groups of the entities of the
\* batch, each with the documents that own its entities
MatchGroups(docs) ==
    UNION {[1..n -> (SUBSET docs) \ {{}}] : n \in 0..MaxGroups}

InitBatch ==
    /\ terms_by_term_norm = EmptyDict
    /\ terms_by_id = EmptyDict
    /\ curations = {}
    /\ curations_by_id = EmptyDict
    /\ global_ids = <<>>
    /\ gpos = 1
    /\ pc = "run"
    /\ todo = {}
    /\ conflicts = {}
    /\ curation_for_ner = <<>>
    /\ last = NoOp
    /\ nops = 0
    /\ mapping = NoMapping
    /\ grouping = NoGrouping
    /\ filtering = NoFiltering
    /\ tfidf = NoTfIdf
    /\ disambiguating = NoDisambiguating
    /\ rule_filter = NoRuleFilter
    /\ \E docs \in Batches :
          \/ \E groups \in MatchGroups(docs) :
             \E outcomes \in [DOMAIN groups -> GroupOutcomes] :
                batch = [NoBatch EXCEPT !.step = "DictionaryEntityLinkingStep",
                                        !.docs = docs,
                                        !.ents_by_match_and_class = groups,
                                        !.outcomes = outcomes]
          \/ \E step \in {"ExplosionStringMatchingStep", "RuleBasedNerAndLinkingStep"} :
             \E sections \in [docs -> 0..MaxSections] :
             \E raise_at \in 0..Len(texts_and_sections(SortedSeq(docs), sections)) :
                batch = [NoBatch EXCEPT !.step = step, !.docs = docs,
                                        !.sections = sections, !.raise_at = raise_at]

AfterRun(r) ==
    /\ batch' = [batch EXCEPT !.called = TRUE, !.propagated = r.propagated,
                              !.marked = r.marked, !.failed_docs = r.failed_docs,
                              !.returned_docs = r.returned_docs,
                              !.affected = r.affected]
    /\ pc' = IF r.propagated THEN "raised" ELSE "returned"
    /\ UnchangedProcessor
    /\ UNCHANGED <<mapping, grouping, filtering, tfidf, disambiguating, rule_filter>>

DictionaryRun ==
    /\ pc = "run"
    /\ batch.step = "DictionaryEntityLinkingStep"
    /\ \E r \in DictionaryEntityLinkingStep_run(batch.docs, batch.ents_by_match_and_class,
                                                 batch.outcomes) : AfterRun(r)

ExplosionRun ==
    /\ pc = "run"
    /\ batch.step = "ExplosionStringMatchingStep"
    /\ AfterRun(ExplosionStringMatchingStep_run(batch.docs, batch.sections, batch.raise_at))

RuleBasedRun ==
    /\ pc = "run"
    /\ batch.step = "RuleBasedNerAndLinkingStep"
    /\ AfterRun(RuleBasedNerAndLinkingStep_run(batch.docs, batch.sections, batch.raise_at))

NextBatch == DictionaryRun \/ ExplosionRun \/ RuleBasedRun

SpecBatch == InitBatch /\ [][NextBatch]_vars

\* -------- StrongMatchWithEmbeddingConfirmationStringMatchingStrategy
\* (specification SpecConfirm: the strategy is configured and its
\* filter_terms is called with the candidate terms of a mention)
ConfirmNorms == 1..MaxCandidates
ConfirmScores == {94, 95}
ConfirmIdSets == {{{1}}, {{2}}}

TermsToConfirm ==
    {TermToConfirm(norm, symbolic, score, id_sets, confirmed) :
        norm \in ConfirmNorms, symbolic \in BOOLEAN,
        score \in {{}} \cup {{sc} : sc \in ConfirmScores},
        id_sets \in ConfirmIdSets, confirmed \in BOOLEAN}

ConfirmCandidateSets ==
    UNION {{{f[n] : n \in D} :
              f \in {g \in [D -> TermsToConfirm] : \A n \in D : g[n].term_norm = n}}
           : D \in (SUBSET ConfirmNorms) \ {{}}}

InitConfirm ==
    /\ terms_by_term_norm = EmptyDict
    /\ terms_by_id = EmptyDict
    /\ curations = {}
    /\ curations_by_id = EmptyDict
    /\ global_ids = <<>>
    /\ gpos = 1
    /\ pc = "filter_terms"
    /\ todo = {}
    /\ conflicts = {}
    /\ curation_for_ner = <<>>
    /\ last = NoOp
    /\ nops = 0
    /\ mapping = NoMapping
    /\ grouping = NoGrouping
    /\ tfidf = NoTfIdf
    /\ batch = NoBatch
    /\ disambiguating = NoDisambiguating
    /\ rule_filter = NoRuleFilter
    /\ \E terms \in ConfirmCandidateSets :
       \E symbolic_only \in BOOLEAN :
       \E differential \in Differentials :
          filtering = [NoFiltering EXCEPT
                          !.strategy = "StrongMatchWithEmbeddingConfirmationStringMatchingStrategy",
                          !.terms = terms,
                          !.search_threshold = 80,
                          !.symbolic_only = symbolic_only,
                          !.differential = differential]

\* StrongMatchWithEmbeddingConfirmationStringMatchingStrategy.filter_terms is
\* called
EmbeddingConfirmationFilterTerms ==
    /\ pc = "filter_terms"
    /\ filtering.strategy = "StrongMatchWithEmbeddingConfirmationStringMatchingStrategy"
    /\ \E r \in EmbeddingConfirmation_filter_terms(filtering.terms,
                     filtering.search_threshold, filtering.symbolic_only,
                     filtering.differential) :
          filtering' = [filtering EXCEPT !.called = TRUE, !.result = r.result,
                                         !.visited = r.visited]
    /\ pc' = "filtered"
    /\ UnchangedProcessor
    /\ UNCHANGED <<mapping, grouping, tfidf, batch, disambiguating, rule_filter>>

NextConfirm == EmbeddingConfirmationFilterTerms

SpecConfirm == InitConfirm /\ [][NextConfirm]_vars

\* -------- AnnotationLevelDisambiguationStrategy
\* (specification SpecAnnotation: the strategy is called with the id sets of
\* an ambiguous mention; the metadata database holds an entry for every id)
NumAnnotatedIds == 3
AnnotatedIds == 1..NumAnnotatedIds
AnnotationScores == {-1, 1, 2}
Metadata == [AnnotatedIds -> {{}} \cup {{score} : score \in AnnotationScores}]
AmbiguousIdSets == (SUBSET ((SUBSET AnnotatedIds) \ {{}})) \ {{}}

InitAnnotation ==
    /\ terms_by_term_norm = EmptyDict
    /\ terms_by_id = EmptyDict
    /\ curations = {}
    /\ curations_by_id = EmptyDict
    /\ global_ids = <<>>
    /\ gpos = 1
    /\ pc = "disambiguate"
    /\ todo = {}
    /\ conflicts = {}
    /\ curation_for_ner = <<>>
    /\ last = NoOp
    /\ nops = 0
    /\ mapping = NoMapping
    /\ grouping = NoGrouping
    /\ filtering = NoFiltering
    /\ tfidf = NoTfIdf
    /\ batch = NoBatch
    /\ rule_filter = NoRuleFilter
    /\ \E id_sets \in AmbiguousIdSets :
       \E metadata \in Metadata :
          disambiguating = [NoDisambiguating EXCEPT
                               !.strategy = "AnnotationLevelDisambiguationStrategy",
                               !.id_sets = id_sets,
                               !.metadata = metadata]

\* AnnotationLevelDisambiguationStrategy.disambiguate is called
AnnotationLevelDisambiguate ==
    /\ pc = "disambiguate"
    /\ disambiguating.strategy = "AnnotationLevelDisambiguationStrategy"
    /\ ~annotation_level_raises(disambiguating.id_sets, disambiguating.metadata)
    /\ disambiguating' =
          [disambiguating EXCEPT
              !.called = TRUE,
              !.result = AnnotationLevel_disambiguate(disambiguating.id_sets,
                                                      disambiguating.metadata)]
    /\ pc' = "disambiguated"
    /\ UnchangedProcessor
    /\ UNCHANGED <<mapping, grouping, filtering, tfidf, batch, rule_filter>>

NextAnnotation == AnnotationLevelDisambiguate

SpecAnnotation == InitAnnotation /\ [][NextAnnotation]_vars

\* -------- RulesBasedEntityClassDisambiguationFilterStep
\* (specification SpecRules: the step is built from class and mention rules
\* and called on a document whose sections hold up to MaxEntities entities)
MaxEntities == 2
RuleMatches == {"m1", "m2"}
RuleClasses == {"gene"}
RuleKeys == RuleMatches \X RuleClasses
RuleTypes == {"tp", "fp"}
RuledEntities ==
    {RuledEntity(match, entity_class, hits) :
        match \in RuleMatches, entity_class \in RuleClasses, hits \in SUBSET RuleNames}
EntityLists == UNION {[1..n -> RuledEntities] : n \in 0..MaxEntities}

InitRules ==
    /\ terms_by_term_norm = EmptyDict
    /\ terms_by_id = EmptyDict
    /\ curations = {}
    /\ curations_by_id = EmptyDict
    /\ global_ids = <<>>
    /\ gpos = 1
    /\ pc = "rules"
    /\ todo = {}
    /\ conflicts = {}
    /\ curation_for_ner = <<>>
    /\ last = NoOp
    /\ nops = 0
    /\ mapping = NoMapping
    /\ grouping = NoGrouping
    /\ filtering = NoFiltering
    /\ tfidf = NoTfIdf
    /\ batch = NoBatch
    /\ disambiguating = NoDisambiguating
    /\ \E class_matchers \in [RuleClasses -> SUBSET RuleTypes] :
       \E mention_matchers \in [RuleKeys -> SUBSET RuleTypes] :
       \E entities \in EntityLists :
          rule_filter = [NoRuleFilter EXCEPT !.class_matchers = class_matchers,
                                             !.mention_matchers = mention_matchers,
                                             !.entities = entities]

\* RulesBasedEntityClassDisambiguationFilterStep.__call__ runs on the document
RulesBasedFilterCall ==
    /\ pc = "rules"
    /\ LET r == rules_based_filter_call(rule_filter.class_matchers,
                                        rule_filter.mention_matchers,
                                        rule_filter.entities)
       IN rule_filter' = [rule_filter EXCEPT !.called = TRUE, !.raised = r.raised,
                                             !.kept = r.kept]
    /\ pc' = "filtered"
    /\ UnchangedProcessor
    /\ UNCHANGED <<mapping, grouping, filtering, tfidf, batch, disambiguating>>

NextRules == RulesBasedFilterCall

SpecRules == InitRules /\ [][NextRules]_vars

\* -------- analyse_conflicts_in_curations on larger curation sets
\* (specification SpecConflicts: the analysis is called with up to
\* MaxAnalysedCurations curations of one action each)
MaxAnalysedCurations == 5

AnalysedActions ==
    {SynonymTermAction("ADD_FOR_NER_AND_LINKING", {{1}}),
     SynonymTermAction("ADD_FOR_LINKING_ONLY", {{2}}),
     SynonymTermAction("DROP_SYNONYM_TERM_FOR_LINKING", NoneIdSets)}

AnalysedCurations ==
    {Curation(syn, NoneVal, <<action>>) : syn \in Syns, action \in AnalysedActions}
    \cup
    {Curation(p[1], p[2], <<SynonymTermAction("INHERIT_FROM_SOURCE_TERM", NoneIdSets)>>) :
        p \in {q \in Syns \X Syns : q[1] # q[2]}}

InitConflicts ==
    /\ terms_by_term_norm = EmptyDict
    /\ terms_by_id = EmptyDict
    /\ curations \in SubsetsUpTo(AnalysedCurations, MaxAnalysedCurations)
    /\ curations_by_id = EmptyDict
    /\ global_ids = <<>>
    /\ gpos = 1
    /\ pc = "analyse"
    /\ todo = {}
    /\ conflicts = {}
    /\ curation_for_ner = <<>>
    /\ last = NoOp
    /\ nops = 0
    /\ mapping = NoMapping
    /\ grouping = NoGrouping
    /\ filtering = NoFiltering
    /\ tfidf = NoTfIdf
    /\ batch = NoBatch
    /\ disambiguating = NoDisambiguating
    /\ rule_filter = NoRuleFilter

\* analyse_conflicts_in_curations(curations) is called
AnalyseConflictsCall ==
    /\ pc = "analyse"
    /\ todo' = analyse_conflicts_in_curations(curations).safe
    /\ conflicts' = analyse_conflicts_in_curations(curations).conflicts
    /\ pc' = "analysed"
    /\ last' = [NoOp EXCEPT !.op = "analyse_conflicts_in_curations", !.result = "OK"]
    /\ UNCHANGED <<terms_by_term_norm, terms_by_id, curations, curations_by_id,
                   global_ids, gpos, curation_for_ner, nops, mapping, grouping, filtering,
                   tfidf, batch, disambiguating, rule_filter>>

NextConflicts == AnalyseConflictsCall

SpecConflicts == InitConflicts /\ [][NextConflicts]_vars

\* -------- MappingStrategy.__call__ with the provided strategies
\* (specification SpecMapIds: as SpecMap, with terms over plain and URL ids
\* and the strategies DefinedElsewhereInDocument, TfIdf and AnnotationLevel)
MapEquivalentIdSets == (SUBSET MapIds) \ {{}}
MapAssociatedIdSets ==
    {a \in SUBSET MapEquivalentIdSets :
        /\ Cardinality(a) \in 1..2
        /\ \A e1, e2 \in a : e1 # e2 => e1 \cap e2 = {}}
MapTermSets ==
    {{IngestedTerm(1, a)} : a \in MapAssociatedIdSets}
    \cup {{IngestedTerm(1, a1), IngestedTerm(2, a2)} :
             a1 \in MapAssociatedIdSets, a2 \in MapAssociatedIdSets}
ProvidedStrategyLists == UNION {[1..k -> ProvidedStrategyNames] : k \in 1..MaxStrategies}

InitMapIds ==
    /\ terms_by_term_norm = EmptyDict
    /\ terms_by_id = EmptyDict
    /\ curations = {}
    /\ curations_by_id = EmptyDict
    /\ global_ids = <<>>
    /\ gpos = 1
    /\ pc = "filter_terms"
    /\ todo = {}
    /\ conflicts = {}
    /\ curation_for_ner = <<>>
    /\ last = NoOp
    /\ nops = 0
    /\ grouping = NoGrouping
    /\ filtering = NoFiltering
    /\ tfidf = NoTfIdf
    /\ batch = NoBatch
    /\ disambiguating = NoDisambiguating
    /\ rule_filter = NoRuleFilter
    /\ \E terms \in MapTermSets :
       \E disambiguation_strategies \in {{}} \cup {{lst} : lst \in ProvidedStrategyLists} :
          mapping = [NoMapping EXCEPT
                        !.terms = terms,
                        !.confidence = "PROBABLE",
                        !.disambiguation_strategies = disambiguation_strategies]

\* disambiguate_if_required, one iteration of the strategy loop with a
\* provided strategy; an exception of the strategy leaves __call__
ConsultProvidedStrategy ==
    /\ pc = "disambiguate"
    /\ disambiguation_required(mapping.filtered_terms)
    /\ mapping.disambiguation_strategies # {}
    /\ mapping.pos <= Len(StrategyList)
    /\ LET strategy == StrategyList[mapping.pos]
       IN \E r \in provided_strategy_call(strategy, all_id_sets(mapping.filtered_terms)) :
             LET called == [mapping EXCEPT
                               !.consulted = Append(@, [strategy |-> strategy,
                                                        output |-> r.output])]
             IN IF r.raised
                THEN /\ mapping' = mapping
                     /\ pc' = "raised"
                ELSE IF strategy_succeeded(r.output)
                THEN /\ mapping' = [called EXCEPT
                                       !.id_sets = r.output,
                                       !.successful_disambiguation_strategy = strategy]
                     /\ pc' = "create_mappings"
                ELSE /\ mapping' = [called EXCEPT !.pos = @ + 1]
                     /\ pc' = "disambiguate"
    /\ UnchangedProcessor
    /\ UnchangedMappingState

NextMapIds ==
    \/ CallFilterTerms
    \/ ConsultProvidedStrategy
    \/ ReturnAllIdSets
    \/ CreateMappings

SpecMapIds == InitMapIds /\ [][NextMapIds]_vars

\* ------------------------------------------------------------- properties

StoredTerms == {terms_by_term_norm[n] : n \in DOMAIN terms_by_term_norm}

\* the by-id index lists exactly the stored terms under exactly their ids
IndexConsistent(db) ==
    /\ \A idx \in DOMAIN db.terms_by_id : \A term \in db.terms_by_id[idx] :
          /\ term.term_norm \in DOMAIN db.terms_by_term_norm
          /\ db.terms_by_term_norm[term.term_norm] = term
          /\ idx \in TermIds(term)
    /\ \A n \in DOMAIN db.terms_by_term_norm :
          \A idx \in TermIds(db.terms_by_term_norm[n]) :
             /\ idx \in DOMAIN db.terms_by_id
             /\ db.terms_by_term_norm[n] \in db.terms_by_id[idx]

\* every stored term is listed under each of its ids, so the KeyError branch
\* of the removal loop in _drop_synonym_term is never taken
StoredTermsAreListed ==
    /\ \A n \in DOMAIN terms_by_term_norm :
          \A idx \in TermIds(terms_by_term_norm[n]) :
             /\ idx \in DOMAIN terms_by_id
             /\ terms_by_term_norm[n] \in terms_by_id[idx]
    /\ last.missed = FALSE

C2_DroppedIdsStayDropped ==
    pc = "done" =>
        \A idx \in Range(global_ids) : \A term \in StoredTerms : idx \notin TermIds(term)

\* two curations without a source_term, of one term_norm, with add actions
\* that ask for different AssociatedIdSets
AddTargets(c) ==
    {c.actions[k].associated_id_sets :
        k \in {j \in DOMAIN c.actions : IsAddBehaviour(c.actions[j].behaviour)}}

ConflictingPair(c1, c2) ==
    /\ c1 # c2
    /\ c1.source_term = NoneVal
    /\ c2.source_term = NoneVal
    /\ curated_synonym_norm(c1) = curated_synonym_norm(c2)
    /\ \E t1 \in AddTargets(c1) : \E t2 \in AddTargets(c2) : t1 # t2

Analysed == pc \in {"curations", "done"} \/ (pc = "raised" /\ last.op = "process_curation")

\* C3: once conflicts are analysed, two such curations lie in one conflict
\* set, are not among the safe curations waiting to be processed, are never
\* the curation being processed and are not in the NER list
C3_ConflictingCurationsNotApplied ==
    Analysed =>
        \A c1 \in curations : \A c2 \in curations :
            ConflictingPair(c1, c2) =>
                /\ \E conflict_lst \in conflicts : c1 \in conflict_lst /\ c2 \in conflict_lst
                /\ {c1, c2} \cap todo = {}
                /\ {c1, c2} \cap last.curation = {}
                /\ {c1, c2} \cap Range(curation_for_ner) = {}

\* the export returned with two such curations found in conflict, other
\* curations processed into the NER list and terms left in the final set
C3_Witness ==
    /\ pc = "done"
    /\ \E c1 \in curations : \E c2 \in curations :
          /\ ConflictingPair(c1, c2)
          /\ \E conflict_lst \in conflicts : {c1, c2} \subseteq conflict_lst
    /\ terms_by_term_norm # EmptyDict

IsAddOp(l) == l.op = "attempt_to_add_database_entry_for_curation"

\* C4: an add for a term_norm whose stored term does not contain the target
\* id sets raises CurationException and changes neither index
C4_AddNeverOverwrites ==
    [][(/\ IsAddOp(last')
        /\ nops' = nops + 1
        /\ last'.term_norm \in DOMAIN terms_by_term_norm
        /\ ~(last'.ids \subseteq
                terms_by_term_norm[last'.term_norm].associated_id_sets))
       => /\ last'.result = "CurationException"
          /\ terms_by_term_norm' = terms_by_term_norm
          /\ terms_by_id' = terms_by_id]_vars

\* an add was refused for a term_norm whose stored term shares no id with the
\* target, and the stored term is still the ingested one
C4_Witness ==
    /\ IsAddOp(last)
    /\ last.result = "CurationException"
    /\ last.term_norm \in DOMAIN terms_by_term_norm
    /\ TermIds(terms_by_term_norm[last.term_norm]) \cap UNION last.ids = {}
    /\ terms_by_term_norm[last.term_norm].terms = NoneVal

\* C5: an add that succeeded, repeated at once with the same arguments,
\* returns NO_ACTION and changes neither index
C5_AddIsIdempotent ==
    [][(/\ IsAddOp(last)
        /\ last.result \in {"SYNONYM_TERM_ADDED", "NO_ACTION"}
        /\ IsAddOp(last')
        /\ nops' = nops + 1
        /\ last'.syn = last.syn
        /\ last'.ids = last.ids)
       => /\ last'.result = "NO_ACTION"
          /\ terms_by_term_norm' = terms_by_term_norm
          /\ terms_by_id' = terms_by_id]_vars

\* C6: when the export has returned, every curation of the NER list has its
\* linking term_norm in the final term set
C6_NerCurationsHaveTerms ==
    pc = "done" =>
        \A curation \in Range(curation_for_ner) :
            term_norm_for_linking(curation) \in DOMAIN terms_by_term_norm

\* the Mappings emitted for idx
MappingsFor(idx) == {k \in DOMAIN mapping.mappings : mapping.mappings[k].idx = idx}

\* C7: every Mapping emitted has the configured confidence if exactly one
\* EquivalentIdSet survived and AMBIGUOUS if more than one survived, and one
\* Mapping is emitted per member id of each surviving EquivalentIdSet
C7_ConfidenceOfMappings ==
    pc = "mapped" =>
        /\ Cardinality(mapping.id_sets) = 1 =>
               \A k \in DOMAIN mapping.mappings :
                  mapping.mappings[k].confidence = mapping.confidence
        /\ Cardinality(mapping.id_sets) > 1 =>
               \A k \in DOMAIN mapping.mappings :
                  mapping.mappings[k].confidence = "AMBIGUOUS"
        /\ \A idx \in Ids :
               Cardinality(MappingsFor(idx)) =
                  Cardinality({id_set \in mapping.id_sets : idx \in id_set})

\* a call with a confidence other than AMBIGUOUS that ended with several
\* EquivalentIdSets and emitted Mappings
C7_Witness ==
    /\ pc = "mapped"
    /\ mapping.confidence # "AMBIGUOUS"
    /\ Cardinality(mapping.id_sets) > 1
    /\ Len(mapping.mappings) > Cardinality(mapping.id_sets)

\* the strategy calls whose output was exactly one EquivalentIdSet
Narrowing == {k \in DOMAIN mapping.consulted :
                 Cardinality(mapping.consulted[k].output) = 1}

\* C8: the strategies consulted are the configured ones in their order and
\* only when several terms remain or one is ambiguous; the first output of
\* exactly one EquivalentIdSet is the result and ends the consultation; with
\* no such output every strategy was consulted and the result is the union of
\* the id sets of the filtered terms, with no strategy recorded
C8_FirstNarrowingStrategyWins ==
    pc \in {"create_mappings", "mapped"} =>
        /\ mapping.consulted # <<>> =>
               /\ mapping.disambiguation_strategies # {}
               /\ \/ Cardinality(mapping.filtered_terms) > 1
                  \/ \E term \in mapping.filtered_terms :
                        Cardinality(term.associated_id_sets) > 1
               /\ Len(mapping.consulted) <= Len(StrategyList)
               /\ \A k \in DOMAIN mapping.consulted :
                      mapping.consulted[k].strategy = StrategyList[k]
        /\ \A k \in Narrowing :
               /\ k = Len(mapping.consulted)
               /\ mapping.id_sets = mapping.consulted[k].output
               /\ mapping.successful_disambiguation_strategy = StrategyList[k]
        /\ Narrowing = {} =>
               /\ mapping.id_sets =
                     UNION {term.associated_id_sets : term \in mapping.filtered_terms}
               /\ mapping.successful_disambiguation_strategy = NoneStr
               /\ mapping.consulted # <<>> =>
                     Len(mapping.consulted) = Len(StrategyList)

\* a second strategy narrowed to one EquivalentIdSet after the first returned
\* an empty set
C8_Witness ==
    /\ pc = "mapped"
    /\ Len(mapping.consulted) = 2
    /\ mapping.consulted[1].output = {}
    /\ Cardinality(mapping.consulted[2].output) = 1
    /\ mapping.successful_disambiguation_strategy = StrategyList[2]

\* C9: right after _drop_id_from_all_synonym_terms(id) has returned, nothing
\* is listed under id, no stored term holds id, and no term_norm whose stored
\* term held no other id than id is still stored
C9_DroppedIdLeavesNoTrace ==
    [][(/\ last'.op = "drop_id_from_all_synonym_terms"
        /\ last'.result = "OK"
        /\ nops' = nops + 1)
       => /\ last'.idx \in DOMAIN terms_by_id' => terms_by_id'[last'.idx] = {}
          /\ \A n \in DOMAIN terms_by_term_norm' :
                last'.idx \notin TermIds(terms_by_term_norm'[n])
          /\ \A n \in DOMAIN terms_by_term_norm :
                TermIds(terms_by_term_norm[n]) = {last'.idx}
                => n \notin DOMAIN terms_by_term_norm']_vars

\* the ids an action names, and the curation the claim expects after idx is
\* dropped: every target narrowed by idx
NamedIds(action) ==
    IF action.associated_id_sets = NoneIdSets THEN {} ELSE UNION action.associated_id_sets

NamesId(c, idx) == \E k \in DOMAIN c.actions : idx \in NamedIds(c.actions[k])

TargetEmptied(c, idx) ==
    \E k \in DOMAIN c.actions :
        /\ idx \in NamedIds(c.actions[k])
        /\ drop_id_from_associated_id_sets(idx, c.actions[k].associated_id_sets) = {}

Narrowed(c, idx) ==
    [c EXCEPT !.actions =
        [k \in DOMAIN c.actions |->
            IF c.actions[k].associated_id_sets = NoneIdSets
            THEN c.actions[k]
            ELSE [c.actions[k] EXCEPT !.associated_id_sets =
                     drop_id_from_associated_id_sets(idx, @)]]]

\* C10: the global drop of an id removes every curation naming the id that
\* has an action whose target is emptied, and replaces every other curation
\* naming the id by the one with the narrowed targets
C10_CurationsRewrittenOrRemoved ==
    [][(/\ last'.op = "drop_id_from_curation"
        /\ last'.result = "OK")
       => curations' =
             {c \in curations : ~NamesId(c, last'.idx)}
             \cup {Narrowed(c, last'.idx) :
                      c \in {x \in curations :
                                NamesId(x, last'.idx) /\ ~TargetEmptied(x, last'.idx)}}]_vars

\* the curations conflict analysis and curation processing have seen
SeenCurations ==
    curations \cup todo \cup UNION conflicts \cup last.curation \cup Range(curation_for_ner)

\* C11: once conflicts are analysed, and while curations are processed, every
\* id of the global action has been dropped from the terms and the curations,
\* and no curation that is analysed or processed names a globally dropped id
C11_GlobalActionsFirst ==
    Analysed =>
        /\ gpos > Len(global_ids)
        /\ \A c \in SeenCurations : \A idx \in Range(global_ids) : ~NamesId(c, idx)

\* the export returned after a global drop rewrote a curation that was then
\* processed into the NER list
C11_Witness ==
    /\ pc = "done"
    /\ global_ids # <<>>
    /\ curation_for_ner # <<>>
    /\ \E c \in Range(curation_for_ner) : \E k \in DOMAIN c.actions :
          IsAddBehaviour(c.actions[k].behaviour)


\* C12: when a safe curation with a source_term is processed, no safe
\* curation without a source_term is still waiting to be processed
C12_InheritingCurationsLast ==
    (/\ last.op = "process_curation"
     /\ \E c \in last.curation : c.source_term # NoneVal)
    => \A c \in todo : c.source_term # NoneVal

\* an inheriting curation was processed after a curation without a
\* source_term, and both are in the NER list
C12_Witness ==
    /\ pc = "done"
    /\ Len(curation_for_ner) = 2
    /\ curation_for_ner[1].source_term = NoneVal
    /\ curation_for_ner[2].source_term # NoneVal

\* the curation reaches an action of behaviour b: only actions that drop an
\* id set come before it
AppliedThrough(c, b) ==
    \E k \in DOMAIN c.actions :
        /\ c.actions[k].behaviour = b
        /\ \A j \in 1..(k - 1) : c.actions[j].behaviour = "DROP_ID_SET_FROM_SYNONYM_TERM"

\* C13: when the export has returned, no curation applied through
\* ADD_FOR_LINKING_ONLY is in the NER list, and every safe curation applied
\* through ADD_FOR_NER_AND_LINKING is
C13_NerListHoldsNerCurationsOnly ==
    pc = "done" =>
        /\ \A c \in Range(curation_for_ner) : ~AppliedThrough(c, "ADD_FOR_LINKING_ONLY")
        /\ \A c \in curations \ UNION conflicts :
               AppliedThrough(c, "ADD_FOR_NER_AND_LINKING") => c \in Range(curation_for_ner)

\* C14: the global drop of an id that no stored term holds does not raise and
\* leaves the terms as they are; the curation rewrite for an id that no
\* curation names does not raise, leaves the curations as they are and goes
\* on to the next id
C14_MissedGlobalIdIsSkipped ==
    [][/\ (/\ pc = "global"
           /\ last'.op = "drop_id_from_all_synonym_terms"
           /\ \A term \in StoredTerms : last'.idx \notin TermIds(term))
          => /\ last'.result = "OK"
             /\ pc' = "global_curation"
             /\ terms_by_term_norm' = terms_by_term_norm
       /\ (/\ pc = "global_curation"
           /\ last'.op = "drop_id_from_curation"
           /\ \A c \in curations : ~NamesId(c, last'.idx))
          => /\ last'.result = "OK"
             /\ pc' = "global"
             /\ curations' = curations]_vars

\* the first action of the curation references something the working copy
\* does not have: a drop for a term_norm with no term, or an add for a new
\* term_norm that names an id no stored term holds
ReferencesMissingItem(c) ==
    LET action == c.actions[1]
        term_norm == term_norm_for_linking(c)
    IN /\ term_norm \notin DOMAIN terms_by_term_norm
       /\ \/ action.behaviour \in {"DROP_ID_SET_FROM_SYNONYM_TERM",
                                   "DROP_SYNONYM_TERM_FOR_LINKING"}
          \/ /\ IsAddBehaviour(action.behaviour)
             /\ \E idx \in NamedIds(action) :
                   \A term \in StoredTerms : idx \notin TermIds(term)

\* C15: processing a curation that references a missing item raises nothing,
\* changes neither index, does not put the curation into the NER list and
\* lets the loop go on
C15_MissingReferenceIsRecovered ==
    [][(/\ pc = "curations"
        /\ last'.op = "process_curation"
        /\ \A c \in last'.curation : ReferencesMissingItem(c))
       => /\ last'.result = "OK"
          /\ pc' = "curations"
          /\ terms_by_term_norm' = terms_by_term_norm
          /\ terms_by_id' = terms_by_id
          /\ curation_for_ner' = curation_for_ner]_vars

\* C16: with no string scorer configured, score_and_group_ids returns one
\* singleton EquivalentIdSet per input id and the strategy NO_STRATEGY
C16_NoScorerNoStrategy ==
    (grouping.called /\ grouping.string_scorer = {}) =>
        /\ grouping.aggregated_by = "NO_STRATEGY"
        /\ Cardinality(grouping.associated_id_sets) = Cardinality(grouping.ids)
        /\ \A idx \in grouping.ids : {idx} \in grouping.associated_id_sets

\* no scorer, several ids of a synonym that is not symbolic
C16_Witness ==
    /\ grouping.called
    /\ grouping.string_scorer = {}
    /\ Cardinality(grouping.ids) > 1
    /\ ~grouping.is_symbolic
    /\ Cardinality(grouping.associated_id_sets) > 1

\* C17 as claimed: called with exactly one id, score_and_group_ids returns
\* the single EquivalentIdSet of that id and the strategy UNAMBIGUOUS
C17_OneIdUnambiguous ==
    (grouping.called /\ Cardinality(grouping.ids) = 1) =>
        /\ grouping.associated_id_sets = {grouping.ids}
        /\ grouping.aggregated_by = "UNAMBIGUOUS"

\* C17 as amended: with a string scorer configured and exactly one id,
\* score_and_group_ids returns the single EquivalentIdSet of that id and the
\* strategy UNAMBIGUOUS
C17_OneIdUnambiguousWithScorer ==
    (grouping.called /\ grouping.string_scorer # {} /\ Cardinality(grouping.ids) = 1) =>
        /\ grouping.associated_id_sets = {grouping.ids}
        /\ grouping.aggregated_by = "UNAMBIGUOUS"

\* a scorer is configured and the one id belongs to a synonym that is not
\* symbolic
C17_Witness ==
    /\ grouping.called
    /\ grouping.string_scorer # {}
    /\ Cardinality(grouping.ids) = 1
    /\ ~grouping.is_symbolic
    /\ grouping.aggregated_by = "UNAMBIGUOUS"

\* the similarity of the id of a step to a cluster it met
StepSim(st, cluster) ==
    LET scorer == CHOOSE f \in grouping.string_scorer : TRUE
    IN Max({scorer[<<default_label(st.idx), default_label(other)>>] : other \in cluster})

\* the clusters after a step
AfterStep(st) ==
    IF st.joined = {} THEN st.before \cup {{st.idx}}
    ELSE (st.before \ {st.joined}) \cup {st.joined \cup {st.idx}}

\* the call grouped the ids of a symbolic synonym by similarity
GroupedBySimilarity ==
    /\ grouping.called
    /\ grouping.string_scorer # {}
    /\ grouping.is_symbolic
    /\ Cardinality(grouping.ids) > 1

\* C18: for a symbolic synonym with several ids and a scorer, the ids are
\* processed one at a time; each joins the cluster of highest similarity (the
\* maximum scorer value over the cluster's labels) if that similarity exceeds
\* synonym_merge_threshold and otherwise starts a cluster; the strategy is
\* RESOLVED_BY_SIMILARITY; two ids scoring 0.9 against 0.7 end in one set, two
\* ids scoring 0.1 end in two singletons
C18_JoinsMostSimilarCluster ==
    GroupedBySimilarity =>
        LET steps == grouping.steps
            thr == grouping.synonym_merge_threshold
        IN /\ grouping.aggregated_by = "RESOLVED_BY_SIMILARITY"
           /\ Len(steps) = Cardinality(grouping.ids)
           /\ {steps[k].idx : k \in DOMAIN steps} = grouping.ids
           /\ steps[1].before = {}
           /\ \A k \in DOMAIN steps :
                 LET st == steps[k]
                     above == {c \in st.before : StepSim(st, c) > thr}
                 IN /\ IF above = {} THEN st.joined = {}
                       ELSE /\ st.joined \in above
                            /\ \A c \in st.before : StepSim(st, c) <= StepSim(st, st.joined)
                    /\ IF k < Len(steps) THEN steps[k + 1].before = AfterStep(st)
                       ELSE grouping.associated_id_sets = AfterStep(st)
           /\ (Cardinality(grouping.ids) = 2 /\ thr = 7) =>
                 LET scorer == CHOOSE f \in grouping.string_scorer : TRUE
                     a == steps[1].idx
                     b == steps[2].idx
                 IN /\ (scorer[<<b, a>>] = 9) => grouping.associated_id_sets = {{a, b}}
                    /\ (scorer[<<b, a>>] = 1) => grouping.associated_id_sets = {{a}, {b}}

\* an id met two clusters above the threshold and joined the more similar
\* one, which is not the last one
C18_Witness ==
    /\ GroupedBySimilarity
    /\ \E k \in DOMAIN grouping.steps :
          LET st == grouping.steps[k]
          IN /\ st.joined # {}
             /\ \E c \in st.before :
                   /\ c # st.joined
                   /\ StepSim(st, c) > grouping.synonym_merge_threshold
                   /\ StepSim(st, c) < StepSim(st, st.joined)

\* the candidates StrongMatchMappingStrategy considers
Considered(term) ==
    /\ term.search_score # {}
    /\ filtering.symbolic_only => term.is_symbolic

StrongMatchCalled ==
    filtering.called /\ filtering.strategy = "StrongMatchMappingStrategy"

\* C19: StrongMatchMappingStrategy.filter_terms returns exactly the
\* considered candidates (scored, and symbolic when symbolic_only is set)
\* whose score is at least search_threshold and at most differential below
\* the best score of the considered candidates; with threshold 80,
\* differential 2 and scores 95, 94, 70 it returns those scored 95 and 94
C19_StrongMatchKeepsCloseToBest ==
    StrongMatchCalled =>
        /\ \A term \in filtering.terms :
              term \in filtering.result <=>
                 /\ Considered(term)
                 /\ search_score_of(term) >= filtering.search_threshold
                 /\ \A other \in filtering.terms :
                       Considered(other) =>
                          search_score_of(other) - search_score_of(term)
                             <= filtering.differential
        /\ filtering.result \subseteq filtering.terms
        /\ ( /\ filtering.search_threshold = 80
             /\ filtering.differential = 2
             /\ Cardinality(filtering.terms) = 3
             /\ \A term \in filtering.terms : Considered(term)
             /\ {search_score_of(term) : term \in filtering.terms} = {95, 94, 70} )
           => /\ Cardinality(filtering.result) = 2
              /\ {search_score_of(term) : term \in filtering.result} = {95, 94}

\* threshold 80, differential 2, three candidates scored 95, 94 and 70
C19_Witness ==
    /\ StrongMatchCalled
    /\ filtering.search_threshold = 80
    /\ filtering.differential = 2
    /\ Cardinality(filtering.terms) = 3
    /\ \A term \in filtering.terms : Considered(term)
    /\ {search_score_of(term) : term \in filtering.terms} = {95, 94, 70}
    /\ Cardinality(filtering.result) = 2

\* the candidates TermNormIsSubStringMappingStrategy considers
TokenCandidates ==
    {term \in filtering.terms :
        /\ \E k \in DOMAIN split(filtering.ent_match_norm) :
              split(filtering.ent_match_norm)[k] = term.term_norm
        /\ Len(term.term_norm) >= filtering.min_term_norm_len_to_consider}

\* the considered candidates of greatest term_norm length
LongestCandidates ==
    {term \in TokenCandidates :
        \A other \in TokenCandidates : Len(other.term_norm) <= Len(term.term_norm)}

\* C20: TermNormIsSubStringMappingStrategy.filter_terms considers the
\* candidates whose term_norm is a whitespace token of the normalised mention
\* and has the minimum length; it returns the one candidate of greatest
\* term_norm length if that group has exactly one member, and the empty set
\* when candidates tie at the greatest length
C20_LongestTokenOrNothing ==
    (filtering.called /\ filtering.strategy = "TermNormIsSubStringMappingStrategy") =>
        IF Cardinality(LongestCandidates) = 1
        THEN filtering.result = LongestCandidates
        ELSE filtering.result = {}

\* the AssociatedIdSets of the stored terms that contain every id of target
CoveringIdSets(target) ==
    {term.associated_id_sets : term \in {t \in StoredTerms : UNION target \subseteq TermIds(t)}}

\* the step is an add for a term_norm that has no term
AddForNewTermNorm ==
    /\ IsAddOp(last')
    /\ nops' = nops + 1
    /\ last'.term_norm \notin DOMAIN terms_by_term_norm

\* C21: when the add finds no term for the term_norm and reuses an existing
\* AssociatedIdSets for the new term, the reused AssociatedIdSets contains
\* every id of the target, and no existing AssociatedIdSets that contains
\* every target id has fewer EquivalentIdSets
C21_ReusedIdSetsCoverTarget ==
    [][(/\ AddForNewTermNorm
        /\ last'.result = "SYNONYM_TERM_ADDED"
        /\ terms_by_term_norm'[last'.term_norm].associated_id_sets
              \in {term.associated_id_sets : term \in StoredTerms})
       => LET reused == terms_by_term_norm'[last'.term_norm].associated_id_sets
          IN /\ UNION last'.ids \subseteq UNION reused
             /\ \A other \in CoveringIdSets(last'.ids) :
                   Cardinality(reused) <= Cardinality(other)]_vars

\* C22: when no term exists for the term_norm and no existing
\* AssociatedIdSets covers the target ids, the add registers a new term whose
\* AssociatedIdSets has one singleton EquivalentIdSet per target id and whose
\* aggregation strategy is MODIFIED_BY_CURATION
C22_UncoveredTargetGetsSingletons ==
    [][(/\ AddForNewTermNorm
        /\ CoveringIdSets(last'.ids) = {})
       => /\ last'.result = "SYNONYM_TERM_ADDED"
          /\ last'.term_norm \in DOMAIN terms_by_term_norm'
          /\ terms_by_term_norm'[last'.term_norm].associated_id_sets
                = {{idx} : idx \in UNION last'.ids}
          /\ terms_by_term_norm'[last'.term_norm].aggregated_by
                = "MODIFIED_BY_CURATION"]_vars

\* C23: whenever disambiguate runs for a document after prepare, the document
\* representation it reads was built from that document as it is at the
\* call, never from another document nor from an earlier state of it
C23_RepresentationIsOfTheDocumentAsItIs ==
    \A r \in tfidf.read :
        r.document_query_matrix = {build_document_representation(r.doc, r.entities)}

\* C24: when the processing of a batch raises inside a step's _run, the
\* exception does not leave _run, and every affected document has a
\* PROCESSING_EXCEPTION entry and is in the failed-documents list
C24_RunCatchesAndMarks ==
    (batch.called /\ batch.affected # {}) =>
        /\ ~batch.propagated
        /\ batch.affected \subseteq batch.marked
        /\ batch.affected \subseteq Range(batch.failed_docs)

\* the same for the exceptions raised inside the try blocks only
RaisedInsideTry ==
    (batch.called /\ batch.affected # {}
       /\ \A k \in DOMAIN batch.outcomes : batch.outcomes[k] # "check_raises") =>
        /\ ~batch.propagated
        /\ batch.affected \subseteq batch.marked
        /\ batch.affected \subseteq Range(batch.failed_docs)

\* C25: the AssociatedIdSets score_and_group_ids returns (the default
\* algorithm in each of its cases and the overrides) is a partition of the
\* input ids: every id lies in exactly one EquivalentIdSet, the sets are
\* pairwise disjoint and none is empty
C25_GroupsPartitionTheIds ==
    grouping.called =>
        /\ \A idx \in grouping.ids :
              Cardinality({e \in grouping.associated_id_sets : idx \in e}) = 1
        /\ UNION grouping.associated_id_sets \subseteq grouping.ids
        /\ \A e1, e2 \in grouping.associated_id_sets : e1 # e2 => e1 \cap e2 = {}
        /\ {} \notin grouping.associated_id_sets

\* three ids grouped by similarity into a cluster of two and a cluster of one
C25_Witness ==
    /\ grouping.called
    /\ grouping.aggregated_by = "RESOLVED_BY_SIMILARITY"
    /\ Cardinality(grouping.ids) = 3
    /\ Cardinality(grouping.associated_id_sets) = 2

\* the terms the by-id index lists for a term_norm
ListedFor(by_id, term_norm) ==
    {term \in UNION {by_id[idx] : idx \in DOMAIN by_id} : term.term_norm = term_norm}

\* C26: a DROP_ID_SET_FROM_SYNONYM_TERM on an existing term leaves the
\* term_norm holding the term's EquivalentIdSets minus the named sets that
\* were on it: a copy with the narrowed AssociatedIdSets and the strategy
\* MODIFIED_BY_CURATION (ID_SET_MODIFIED) when some set remains, removal from
\* both indices (SYNONYM_TERM_DROPPED) when none remains, and no change when
\* no named set is on the term
C26_DropIdSetNarrowsOrDrops ==
    [][(/\ last'.op = "drop_id_set_from_synonym_term"
        /\ nops' = nops + 1
        /\ last'.term_norm \in DOMAIN terms_by_term_norm)
       => LET term == terms_by_term_norm[last'.term_norm]
              remaining == term.associated_id_sets \ last'.ids
          IN IF remaining = term.associated_id_sets
             THEN /\ last'.result = "NO_ACTION"
                  /\ terms_by_term_norm' = terms_by_term_norm
                  /\ terms_by_id' = terms_by_id
             ELSE IF remaining # {}
             THEN /\ last'.result = "ID_SET_MODIFIED"
                  /\ last'.term_norm \in DOMAIN terms_by_term_norm'
                  /\ terms_by_term_norm'[last'.term_norm]
                        = [term EXCEPT !.associated_id_sets = remaining,
                                       !.aggregated_by = "MODIFIED_BY_CURATION"]
             ELSE /\ last'.result = "SYNONYM_TERM_DROPPED"
                  /\ last'.term_norm \notin DOMAIN terms_by_term_norm'
                  /\ ListedFor(terms_by_id', last'.term_norm) = {}]_vars

\* the term_norms whose stored term holds idx
HoldersOf(idx) == {n \in DOMAIN terms_by_term_norm : idx \in TermIds(terms_by_term_norm[n])}

\* C27: _drop_id_from_all_synonym_terms(id) returns (modified, dropped):
\* dropped is the number of term_norms removed because id was the only id of
\* their term, modified the number of term_norms whose term held id and
\* other ids, and their sum the number of term_norms whose term held id
C27_DropCountsMatchTerms ==
    [][(/\ last'.op = "drop_id_from_all_synonym_terms"
        /\ nops' = nops + 1)
       => LET holders == HoldersOf(last'.idx)
              only == {n \in holders : TermIds(terms_by_term_norm[n]) = {last'.idx}}
          IN /\ last'.result = "OK"
             /\ last'.terms_dropped = Cardinality(only)
             /\ last'.terms_modified = Cardinality(holders \ only)
             /\ last'.terms_modified + last'.terms_dropped = Cardinality(holders)]_vars

PassStrongMatch ==
    {term \in filtering.terms :
        /\ Considered(term)
        /\ search_score_of(term) >= filtering.search_threshold
        /\ \A other \in filtering.terms :
              Considered(other) =>
                 search_score_of(other) - search_score_of(term) <= filtering.differential}

ConfirmCalled ==
    /\ filtering.called
    /\ filtering.strategy = "StrongMatchWithEmbeddingConfirmationStringMatchingStrategy"

\* C29: the filter returns at most one term per AssociatedIdSets: the
\* candidates that pass the StrongMatch filter are visited in descending
\* search score, only the first term visited for each AssociatedIdSets is
\* considered, and it is returned if and only if complex_string_scorer
\* confirms it
C29_FirstPerIdSetsIfConfirmed ==
    ConfirmCalled =>
        LET visited == filtering.visited
        IN /\ Range(visited) = PassStrongMatch
           /\ Len(visited) = Cardinality(PassStrongMatch)
           /\ \A i, j \in DOMAIN visited :
                 i < j => search_score_of(visited[i]) >= search_score_of(visited[j])
           /\ filtering.result \subseteq Range(visited)
           /\ \A k \in DOMAIN visited :
                 visited[k] \in filtering.result <=>
                    /\ \A j \in 1..(k - 1) :
                          visited[j].associated_id_sets # visited[k].associated_id_sets
                    /\ visited[k].confirmed
           /\ \A t1, t2 \in filtering.result :
                 t1.associated_id_sets = t2.associated_id_sets => t1 = t2

\* the first term visited for an AssociatedIdSets is not confirmed and a
\* later, confirmed term of the same AssociatedIdSets is not returned
C29_Witness ==
    /\ ConfirmCalled
    /\ filtering.result # {}
    /\ \E j, k \in DOMAIN filtering.visited :
          /\ j < k
          /\ filtering.visited[j].associated_id_sets
                = filtering.visited[k].associated_id_sets
          /\ ~filtering.visited[j].confirmed
          /\ filtering.visited[k].confirmed
          /\ filtering.visited[k] \notin filtering.result

\* the annotation_score of an id of the call, 0 when the metadata has none
ScoreOf(idx) ==
    IF disambiguating.metadata[idx] = {} THEN 0
    ELSE CHOOSE score \in disambiguating.metadata[idx] : TRUE

AnnotationLevelCalled ==
    /\ disambiguating.called
    /\ disambiguating.strategy = "AnnotationLevelDisambiguationStrategy"

\* C30: for a non-empty input, AnnotationLevelDisambiguationStrategy returns
\* exactly the input id sets with a member id whose annotation_score (0 when
\* the metadata has none) is the maximum over all member ids of all input
\* sets: every tied set is returned and the result is a non-empty subset of
\* the input
C30_BestAnnotatedIdSets ==
    (AnnotationLevelCalled /\ disambiguating.id_sets # {}) =>
        /\ disambiguating.result =
              {id_set \in disambiguating.id_sets :
                  \E idx \in id_set :
                     \A other_set \in disambiguating.id_sets :
                        \A other \in other_set : ScoreOf(idx) >= ScoreOf(other)}
        /\ disambiguating.result # {}
        /\ disambiguating.result \subseteq disambiguating.id_sets

\* two sets tied at the best score are both returned, a third is not, and the
\* best score is the default of an id without annotation_score
C30_Witness ==
    /\ AnnotationLevelCalled
    /\ Cardinality(disambiguating.result) = 2
    /\ disambiguating.result # disambiguating.id_sets
    /\ \E id_set \in disambiguating.result :
          \E idx \in id_set :
             /\ disambiguating.metadata[idx] = {}
             /\ \A other \in UNION disambiguating.id_sets : ScoreOf(other) <= 0

\* the rule types configured for the class and for the mention of a key
ClassRulesOf(key) == rule_filter.class_matchers[key[2]]
MentionRulesOf(key) == rule_filter.mention_matchers[key]
EntitiesOf(key) ==
    {i \in DOMAIN rule_filter.entities : key_of(rule_filter.entities[i]) = key}
SentenceHit(key, rule) == \E i \in EntitiesOf(key) : rule \in rule_filter.entities[i].hits
AllRemoved(key) == EntitiesOf(key) \cap rule_filter.kept = {}

\* C31: all entities of a key are removed when its mention-level
\* false-positive rule matches the sentence of one of them, whatever the
\* class-level rules, and when a configured true-positive rule (class or
\* mention level) matches the sentence of none of them
C31_MentionFpAndTpRemove ==
    (rule_filter.called /\ ~rule_filter.raised) =>
        \A key \in RuleKeys :
           /\ ("fp" \in MentionRulesOf(key) /\ SentenceHit(key, "mention_fp"))
                 => AllRemoved(key)
           /\ ("tp" \in ClassRulesOf(key) /\ ~SentenceHit(key, "class_tp"))
                 => AllRemoved(key)
           /\ ("tp" \in MentionRulesOf(key) /\ ~SentenceHit(key, "mention_tp"))
                 => AllRemoved(key)

\* the true-positive part alone, for calls that do not raise
TpRulesRemove ==
    (rule_filter.called /\ ~rule_filter.raised) =>
        \A key \in RuleKeys :
           /\ ("tp" \in ClassRulesOf(key) /\ ~SentenceHit(key, "class_tp"))
                 => AllRemoved(key)
           /\ ("tp" \in MentionRulesOf(key) /\ ~SentenceHit(key, "mention_tp"))
                 => AllRemoved(key)

Unruled(i) ==
    /\ ClassRulesOf(key_of(rule_filter.entities[i])) = {}
    /\ MentionRulesOf(key_of(rule_filter.entities[i])) = {}

\* C39: the step completes without error and leaves every entity without
\* class-level and mention-level rules in its section, whether or not other
\* entities of the document have rules
C39_UnruledEntitiesUntouched ==
    rule_filter.called =>
        /\ (\E i \in DOMAIN rule_filter.entities : Unruled(i)) => ~rule_filter.raised
        /\ \A i \in DOMAIN rule_filter.entities : Unruled(i) => i \in rule_filter.kept

\* the frame part alone: an entity without rules is never removed
UnruledEntitiesKept ==
    rule_filter.called =>
        \A i \in DOMAIN rule_filter.entities : Unruled(i) => i \in rule_filter.kept

\* the call raises exactly when the document holds an entity without rules
RaisesOnUnruledEntity ==
    rule_filter.called =>
        (rule_filter.raised <=> \E i \in DOMAIN rule_filter.entities : Unruled(i))

\* the clusters an id meets at step k, and after the last step the result
ClustersAt(k) ==
    IF k <= Len(grouping.steps) THEN grouping.steps[k].before
    ELSE grouping.associated_id_sets

\* C32: in the grouping by similarity an id, once placed, is never moved or
\* compared again: the id at hand meets only clusters made of the ids
\* processed before it, and a step leaves every cluster as it was except for
\* the one cluster that gains the id (or the new cluster of the id alone)
C32_ClustersOnlyGrow ==
    GroupedBySimilarity =>
        LET steps == grouping.steps
        IN \A k \in DOMAIN steps :
              LET st == steps[k]
                  after == ClustersAt(k + 1)
              IN /\ UNION st.before = {steps[j].idx : j \in 1..(k - 1)}
                 /\ \A c1, c2 \in st.before : c1 # c2 => c1 \cap c2 = {}
                 /\ \A c \in st.before : c \in after \/ (c \cup {st.idx}) \in after
                 /\ Cardinality({c \in after : st.idx \in c}) = 1
                 /\ Cardinality(after) <= Cardinality(st.before) + 1
                 /\ \A c \in st.before :
                       \A a, b \in c :
                          \E final \in grouping.associated_id_sets : {a, b} \subseteq final
                 /\ \A c1, c2 \in st.before :
                       c1 # c2 =>
                          \A final \in grouping.associated_id_sets :
                             final \cap c1 = {} \/ final \cap c2 = {}

\* a later id is processed after a cluster of two ids was formed, and another
\* processing order of the same ids with the same scorer gives another grouping
C32_Witness ==
    /\ GroupedBySimilarity
    /\ \E k \in DOMAIN grouping.steps :
          /\ grouping.steps[k].joined # {}
          /\ k < Len(grouping.steps)
    /\ \E r \in score_and_group_ids(grouping.ids, grouping.is_symbolic,
                                      grouping.string_scorer,
                                      grouping.synonym_merge_threshold) :
          r.associated_id_sets # grouping.associated_id_sets

\* _process_global_actions has completed without error
GlobalActionsCompleted == pc = "global" /\ gpos > Len(global_ids)

\* no curation of the working set names a globally dropped id
NoCurationNamesDroppedId ==
    GlobalActionsCompleted =>
        \A c \in curations : \A idx \in Range(global_ids) : ~NamesId(c, idx)

\* _curations_by_id lists only curations of the working set
CurationIndexListsWorkingSet ==
    GlobalActionsCompleted =>
        \A key \in DOMAIN curations_by_id : curations_by_id[key] \subseteq curations

\* the rewrite of the curations for a dropped id does not raise KeyError
DropIdFromCurationFindsItsCurations ==
    ~(/\ pc = "raised"
      /\ last.op = "drop_id_from_curation"
      /\ last.result = "KeyError")

\* C33: after _process_global_actions completes without error no curation of
\* the working set names a dropped id and _curations_by_id lists only
\* curations of the working set; a curation that names two or more of the
\* dropped ids raises no exception
C33_CurationsAndIndexAfterGlobalActions ==
    /\ NoCurationNamesDroppedId
    /\ CurationIndexListsWorkingSet
    /\ DropIdFromCurationFindsItsCurations

\* C34: analyse_conflicts_in_curations partitions its input: a curation is in
\* the safe set or in exactly one conflict set, never both and never neither;
\* the conflict sets of different term_norms are disjoint; every curation
\* with a source_term is safe
C34_AnalysisPartitionsCurations ==
    pc = "analysed" =>
        /\ todo \cup UNION conflicts = curations
        /\ todo \cap UNION conflicts = {}
        /\ \A c \in curations \ todo :
              Cardinality({conflict_lst \in conflicts : c \in conflict_lst}) = 1
        /\ \A l1, l2 \in conflicts : l1 # l2 => l1 \cap l2 = {}
        /\ \A l1, l2 \in conflicts :
              \A c1 \in l1 : \A c2 \in l2 :
                 (l1 = l2) <=> (curated_synonym_norm(c1) = curated_synonym_norm(c2))
        /\ \A c \in curations : c.source_term # NoneVal => c \in todo

\* two conflict sets for two term_norms, and the inheriting curation of a
\* conflicting synonym is safe
C34_Witness ==
    /\ pc = "analysed"
    /\ Cardinality(conflicts) = 2
    /\ \E c \in todo :
          /\ c.source_term # NoneVal
          /\ \E other \in UNION conflicts : other.curated_synonym = c.curated_synonym

\* the export has not started
ExportNotStarted == pc = "global" /\ gpos = 1 /\ last = NoOp

\* the pairs the export can return from the constructed state
ReturnedPairs ==
    {o \in export_ner_curations_and_final_terms(DB, curations, curations_by_id, global_ids) :
        o.result = "OK"}

\* C35: the pair export_ner_curations_and_final_terms returns is determined
\* by the constructor inputs: the final terms and the set of NER curations are
\* the same for every order of the curations of equal source_term priority
\* and every order in which the terms of an id are visited
C35_ExportIsDetermined ==
    ExportNotStarted => Cardinality(ReturnedPairs) <= 1

\* the same with no global action and safe curations only
ExportOfCurationsIsDetermined ==
    (ExportNotStarted /\ global_ids = <<>>) => Cardinality(ReturnedPairs) <= 1

\* the same with no curation
ExportOfGlobalActionsIsDetermined ==
    (ExportNotStarted /\ curations = {}) => Cardinality(ReturnedPairs) <= 1

\* the ids of the EquivalentIdSets of the terms filter_terms kept
KeptIds == UNION all_id_sets(mapping.filtered_terms)

\* C36: every Mapping that MappingStrategy.__call__ emits is made for a member
\* id of an EquivalentIdSet of a term kept by filter_terms (its idx is that
\* id, stripped to the last path segment when the id is a URL), and every
\* provided disambiguation strategy returns a subset of the EquivalentIdSets
\* it is given
C36_MappingsOnlyForKeptIds ==
    /\ \A k \in DOMAIN mapping.consulted :
          mapping.consulted[k].output \subseteq all_id_sets(mapping.filtered_terms)
    /\ pc \in {"create_mappings", "mapped"} =>
          mapping.id_sets \subseteq all_id_sets(mapping.filtered_terms)
    /\ pc = "mapped" =>
          \A k \in DOMAIN mapping.mappings :
             \E idx \in KeptIds : mapping.mappings[k].idx = strip_url(idx)

\* a provided strategy narrowed the id sets of two kept terms to one set, a
\* term was not kept, and Mappings were emitted for the one set only
C36_Witness ==
    /\ pc = "mapped"
    /\ mapping.successful_disambiguation_strategy \in ProvidedStrategyNames
    /\ mapping.filtered_terms # mapping.terms
    /\ mapping.mappings # <<>>
    /\ mapping.id_sets # all_id_sets(mapping.filtered_terms)
    /\ \E term \in mapping.terms \ mapping.filtered_terms :
          \E idx \in TermIds(term) : idx \notin KeptIds

\* SymbolMatchMappingStrategy.filter_terms has been called
SymbolMatchCalled ==
    /\ filtering.strategy = "SymbolMatchMappingStrategy"
    /\ filtering.called

\* C37: match_symbols is symmetric: a candidate term is kept by
\* match_symbols(ent_match_norm, term_norm) exactly when
\* match_symbols(term_norm, ent_match_norm) holds too, so the verdict does
\* not depend on which string is the mention and which the term_norm
C37_MatchSymbolsIsSymmetric ==
    SymbolMatchCalled =>
        \A term \in filtering.terms :
            (term \in filtering.result)
                <=> match_symbols(term.term_norm, filtering.ent_match_norm)

\* the verdict does not depend on the order of the tokens of the mention
MatchSymbolsIgnoresTokenOrder ==
    SymbolMatchCalled =>
        \A term \in filtering.terms :
        \A tokens \in Perms(Range(split(filtering.ent_match_norm))) :
            Len(tokens) = Len(split(filtering.ent_match_norm)) =>
                ((term \in filtering.result) <=> match_symbols(join(tokens), term.term_norm))

\* a mention and a term_norm with the same number of tokens, matched one
\* way round
SymbolsMatchedOneWay ==
    /\ SymbolMatchCalled
    /\ \E term \in filtering.result :
          /\ Len(split(term.term_norm)) = Len(split(filtering.ent_match_norm))
          /\ term.term_norm # filtering.ent_match_norm

\* RuleBasedNerAndLinkingStep._run has returned
RuleBasedReturned ==
    /\ batch.step = "RuleBasedNerAndLinkingStep"
    /\ batch.called

\* the documents all of whose sections were processed before the pipeline
\* raised
FullyProcessed ==
    LET items == texts_and_sections(SortedSeq(batch.docs), batch.sections)
    IN {doc \in batch.docs :
           \A sec \in 1..batch.sections[doc] :
              \E k \in 1..(batch.raise_at - 1) : items[k] = <<sec, doc>>}

\* C38: RuleBasedNerAndLinkingStep._run returns every input document in
\* exactly one of its two lists: when the pipeline raises part-way through
\* the batch, the fully processed documents are in the first list and all
\* the others in the failed list
C38_EveryDocumentReturnedOnce ==
    RuleBasedReturned =>
        /\ batch.returned_docs \cup Range(batch.failed_docs) = batch.docs
        /\ batch.returned_docs \cap Range(batch.failed_docs) = {}
        /\ batch.raise_at # 0 =>
              /\ batch.returned_docs = FullyProcessed
              /\ Range(batch.failed_docs) = batch.docs \ FullyProcessed

\* what the step does return: on failure the first list is empty and the
\* failed list holds the documents that are not fully processed
RuleBasedReturnsOnlyFailedDocs ==
    (RuleBasedReturned /\ batch.raise_at # 0) =>
        /\ batch.returned_docs = {}
        /\ Range(batch.failed_docs) = batch.docs \ FullyProcessed
        /\ batch.marked = batch.docs \ FullyProcessed

\* without a failure every document is in the first list
RuleBasedReturnsAllOnSuccess ==
    (RuleBasedReturned /\ batch.raise_at = 0) =>
        /\ batch.returned_docs = batch.docs
        /\ batch.failed_docs = <<>>

====
